---- MODULE Spec2Model ----
(***************************************************************************)
(* Verification model of jade-signer-rpc: the passphrase-encrypted keyfile *)
(* (src/keystore/mod.rs), the chain-partitioned storage controller         *)
(* (src/storage/storage_ctrl.rs) and the JSON-RPC handlers that run under  *)
(* the controller's mutex (src/rpc/mod.rs, src/rpc/serves.rs).             *)
(*                                                                         *)
(* Byte strings are abbreviated to small numbers: a private key, a key     *)
(* stream block and a cipher text are 2-bit words, an address is the       *)
(* number of the key it belongs to, a uuid is a number.  The KDF and       *)
(* keccak256 are collision free (their value is the tuple of their         *)
(* arguments); AES-128-CTR is the XOR with a key stream that depends on    *)
(* the derived key and the IV.                                             *)
(***************************************************************************)
EXTENDS Integers, FiniteSets, Sequences, TLC

(***************************************************************************)
(* Bounds of the model.                                                    *)
(***************************************************************************)
MaxUuid == 2
MaxRequests == 2
MaxPathLen == 5
MaxFields == 2
MaxItems == 2

Uuids == 1..MaxUuid
Salts == {0, 1}
Ivs == {0, 1}

\* 2-bit words stand for the 32-byte private key and cipher text
Words == {0, 1, 2, 3}
PrivateKeys == Words
Passphrases == {"", "p", "q"}
Kdfs == {"scrypt", "pbkdf2"}

\* Option<T>: None is the empty tuple, Some(v) the one-element tuple
None == << >>
Some(v) == << v >>

Ok(v) == [ok |-> TRUE, val |-> << v >>, err |-> ""]
Err(e) == [ok |-> FALSE, val |-> << >>, err |-> e]
Unwrap(r) == r.val[1]

(***************************************************************************)
(* Primitives.                                                             *)
(***************************************************************************)
Xor(a, b) == (((a % 2) + (b % 2)) % 2) + 2 * (((a \div 2) + (b \div 2)) % 2)

PassId(p) == CASE p = "" -> 0 [] p = "p" -> 1 [] p = "q" -> 2 [] OTHER -> 3
KdfId(k) == IF k = "scrypt" THEN 0 ELSE 1

\* Kdf::derive(dklen, salt, passphrase): the 32-byte derived key
derive(kdf, salt, passphrase) == [kdf |-> kdf, salt |-> salt, pass |-> passphrase]

\* derived[0..16] seeds the key stream of the cipher
KeyStream(derived, iv) ==
    (PassId(derived.pass) + 2 * derived.salt + KdfId(derived.kdf) + 3 * iv) % 4

\* Cipher::encrypt(data, key = derived[0..16], iv): AES-128-CTR
encrypt(data, derived, iv) == Xor(data, KeyStream(derived, iv))

\* keccak256(derived[16..32] ++ cipher_text)
keccak256(derived, cipher_text) == [dk |-> derived, ct |-> cipher_text]

\* The 20-byte address of a key: the tail of keccak256 of its public key.
\* Address::default() is 0.
AddressOf(pk) == 10 + pk

\* PrivateKey::to_address: the zero key is no secp256k1 secret key
to_address(pk) == IF pk = 0 THEN Err("EcdsaCrypto(InvalidSecretKey)") ELSE Ok(AddressOf(pk))

(***************************************************************************)
(* KeyFile (src/keystore/mod.rs).                                          *)
(***************************************************************************)
DefaultCrypto ==
    [cipher |-> "aes-128-ctr", iv |-> 0, cipher_text |-> 0,
     kdf |-> "scrypt", salt |-> 0, mac |-> keccak256(derive("scrypt", 0, ""), 0)]

DefaultKeyFile ==
    [visible |-> Some(TRUE), name |-> None, description |-> None,
     address |-> 0, uuid |-> 0, crypto |-> DefaultCrypto]

\* KeyFile::encrypt_key_custom: rng draws the salt, then the IV
encrypt_key_custom_StaleSalt(kf, pk, passphrase, rng) ==
    LET derived == derive(kf.crypto.kdf, kf.crypto.salt, passphrase)
        ct == encrypt(pk, derived, rng.iv)
    IN  [kf EXCEPT !.crypto.salt = rng.salt,
                   !.crypto.iv = rng.iv,
                   !.crypto.cipher_text = ct,
                   !.crypto.mac = keccak256(derived, ct)]

encrypt_key_custom(kf, pk, passphrase, rng) ==
    LET derived == derive(kf.crypto.kdf, rng.salt, passphrase)
        ct == encrypt(pk, derived, rng.iv)
    IN  [kf EXCEPT !.crypto.salt = rng.salt,
                   !.crypto.iv = rng.iv,
                   !.crypto.cipher_text = ct,
                   !.crypto.mac = keccak256(derived, ct)]

\* KeyFile::decrypt_key; cipher_ops counts the calls of Cipher::encrypt
decrypt_key_CipherFirst(kf, passphrase) ==
    LET derived == derive(kf.crypto.kdf, kf.crypto.salt, passphrase)
        pk == encrypt(kf.crypto.cipher_text, derived, kf.crypto.iv)
    IN  IF keccak256(derived, kf.crypto.cipher_text) # kf.crypto.mac
        THEN [ok |-> FALSE, val |-> << >>, err |-> "FailedMacValidation", cipher_ops |-> 1]
        ELSE [ok |-> TRUE, val |-> << pk >>, err |-> "", cipher_ops |-> 1]

decrypt_key(kf, passphrase) ==
    LET derived == derive(kf.crypto.kdf, kf.crypto.salt, passphrase)
    IN  IF keccak256(derived, kf.crypto.cipher_text) # kf.crypto.mac
        THEN [ok |-> FALSE, val |-> << >>, err |-> "FailedMacValidation", cipher_ops |-> 0]
        ELSE [ok |-> TRUE,
              val |-> << encrypt(kf.crypto.cipher_text, derived, kf.crypto.iv) >>,
              err |-> "", cipher_ops |-> 1]

\* KeyFile::decrypt_address
decrypt_address(kf, password) ==
    LET pk == decrypt_key(kf, password)
    IN  IF ~pk.ok THEN Err(pk.err) ELSE to_address(Unwrap(pk))

\* KeyFile::new_custom: rng draws the uuid first
new_custom(pk, passphrase, kdf, rng, name, description) ==
    LET kf0 == [DefaultKeyFile EXCEPT !.uuid = rng.uuid, !.name = name,
                                      !.description = description,
                                      !.crypto.kdf = kdf]
        kf1 == encrypt_key_custom(kf0, pk, passphrase, rng)
        addr == decrypt_address(kf1, passphrase)
    IN  IF ~addr.ok THEN Err(addr.err)
        ELSE Ok([kf1 EXCEPT !.address = Unwrap(addr)])

(***************************************************************************)
(* Storage controller (src/storage/storage_ctrl.rs) and the keyfile        *)
(* storage interface behind it.  A partition is the set of the keyfiles it *)
(* holds.                                                                  *)
(***************************************************************************)
CHAIN_NAMES ==
    {"eth", "morden", "ropsten", "rinkeby", "rootstock-main", "rootstock-test",
     "kovan", "etc", "etc-morden"}

\* StorageController::new on a fresh base path: one empty storage per chain
StorageController_new == [c \in CHAIN_NAMES |-> {}]

\* StorageController::get_keystore
get_keystore_Fallback(ctrl, chain) ==
    IF chain \in DOMAIN ctrl THEN Ok(chain) ELSE Ok("eth")

get_keystore(ctrl, chain) ==
    IF chain \in DOMAIN ctrl THEN Ok(chain) ELSE Err("No storage for: " \o chain)

\* the contract storages StorageController::new builds, one per chain
contract_storages == [c \in CHAIN_NAMES |-> {}]

\* StorageController::get_contracts
get_contracts(ctrl, chain) ==
    IF chain \in DOMAIN ctrl THEN Ok(chain) ELSE Err("No storage for: " \o chain)

\* KeyfileStorage::put: overwrite by uuid
put_KeepPrior(S, kf) == S \cup {kf}

put(S, kf) == {k \in S : k.uuid # kf.uuid} \cup {kf}

\* KeyfileStorage::search_by_address
search_by_address_AnyAddress(S, addr) ==
    IF S # {} THEN {Ok(k) : k \in S} ELSE {Err("NotFound")}

\* KeyfileStorage::search_by_address: the possible results; the scan order
\* decides which keyfile is returned when several carry the address
search_by_address(S, addr) ==
    IF \E k \in S : k.address = addr
    THEN {Ok(k) : k \in {k \in S : k.address = addr}}
    ELSE {Err("NotFound")}

\* KeyfileStorage::delete: removes the keyfile the address is found at
delete(S, addr) ==
    IF \E k \in S : k.address = addr
    THEN {[ok |-> TRUE, ks |-> S \ {k}] : k \in {k \in S : k.address = addr}}
    ELSE {[ok |-> FALSE, ks |-> S]}

\* KeyfileStorage::put can fail with a backend IO error
put_results(S, kf) == {Ok(put(S, kf)), Err("IO error")}

\* KeyfileStorage::hide / unhide
set_visible(S, addr, flag) ==
    UNION {IF ~sr.ok THEN {Err(sr.err)}
           ELSE put_results(S, [Unwrap(sr) EXCEPT !.visible = Some(flag)])
           : sr \in search_by_address(S, addr)}

hide(S, addr) == set_visible(S, addr, FALSE)
unhide(S, addr) == set_visible(S, addr, TRUE)

\* KeyfileStorage::list_accounts: AccountInfo in ascending uuid order
RECURSIVE SortByUuid(_)
SortByUuid(S) ==
    IF S = {} THEN << >>
    ELSE LET k == CHOOSE x \in S : \A y \in S : x.uuid <= y.uuid
         IN  << k >> \o SortByUuid(S \ {k})

IsHidden(kf) == kf.visible = Some(FALSE)

AccountInfo(kf) ==
    [address |-> kf.address, name |-> kf.name, description |-> kf.description,
     is_hidden |-> IsHidden(kf), is_hardware |-> FALSE]

storage_list_accounts_ShowAll(S, show_hidden) ==
    LET shown == SortByUuid(S)
    IN  [i \in 1..Len(shown) |-> AccountInfo(shown[i])]

storage_list_accounts(S, show_hidden) ==
    LET shown == SortByUuid({k \in S : show_hidden \/ ~IsHidden(k)})
    IN  [i \in 1..Len(shown) |-> AccountInfo(shown[i])]

(***************************************************************************)
(* RPC errors (src/rpc/error.rs) and the response wrapper (src/rpc/mod.rs).*)
(***************************************************************************)
NoError == [variant |-> "", msg |-> ""]
InvalidDataFormat(m) == [variant |-> "InvalidDataFormat", msg |-> m]
StorageError(m) == [variant |-> "StorageError", msg |-> m]
MnemonicError(m) == [variant |-> "MnemonicError", msg |-> m]
TypedDataError(m) == [variant |-> "TypedDataError", msg |-> m]

\* Display of keystore::Error (src/keystore/error.rs)
keystore_to_string(e) ==
    IF e = "FailedMacValidation" THEN "Message authentication code failed" ELSE e

\* From<keystore::Error>, From<core::Error>, From<storage::KeystoreError>
From_keystore(e) == InvalidDataFormat("keystore: " \o keystore_to_string(e))
From_core(e) == InvalidDataFormat(e)
From_storage(e) == StorageError(e)

\* Display of rpc::Error
to_string(e) ==
    CASE e.variant = "InvalidDataFormat" -> "Invalid data format: " \o e.msg
      [] e.variant = "StorageError" -> "Keyfile storage error: " \o e.msg
      [] e.variant = "MnemonicError" -> "Mnemonic error: " \o e.msg
      [] OTHER -> e.msg

\* What a handler leaves behind: its Result (or a panic) and the storage
\* the JSON value of a result, one slot per type the handlers return
Null == [bool |-> << >>, string |-> << >>, accounts |-> << >>,
         keyfile |-> << >>, raw |-> << >>, signature |-> << >>]
to_value(slot, v) == [Null EXCEPT ![slot] = << v >>]

HOk(v, ks) == [out |-> "ok", err |-> NoError, val |-> v, ks |-> ks]
HErr(e, ks) == [out |-> "err", err |-> e, val |-> Null, ks |-> ks]
HPanic(ks) == [out |-> "panic", err |-> NoError, val |-> Null, ks |-> ks]

\* wrapper: every Err becomes invalid_params carrying the error's Display
wrapper(h) ==
    IF h.out = "err"
    THEN [kind |-> "invalid_params", msg |-> to_string(h.err), value |-> Null]
    ELSE [kind |-> "result", msg |-> "", value |-> h.val]

\* the response the caller gets; a panic unwinds through the closure
respond(h) ==
    IF h.out = "panic" THEN [kind |-> "panic", msg |-> "", value |-> Null]
    ELSE wrapper(h)

\* the methods of the external interface
MethodTable ==
    {"signer_listAddresses", "signer_importAddress", "signer_deleteAddress",
     "signer_listAccounts", "signer_hideAccount", "signer_unhideAccount",
     "signer_shakeAccount", "signer_updateAccount", "signer_importAccount",
     "signer_exportAccount", "signer_newAccount", "signer_signTransaction",
     "signer_sign", "signer_signTypedData", "signer_encodeFunctionCall",
     "signer_listContracts", "signer_importContract", "signer_generateMnemonic",
     "signer_importMnemonic", "openrpc_discover"}

\* start: the names passed to io.add_method
Registered ==
    {"openrpc_discover", "signer_listAddresses", "signer_importAddress",
     "signer_deleteAddress", "signer_listAccounts", "signer_hideAccount",
     "signer_unhideAccount", "signer_shakeAccount", "signer_updateAccount",
     "signer_importAccount", "signer_exportAccount", "signer_newAccount",
     "signer_signTransaction", "signer_sign", "signer_encodeFunctionCall",
     "signer_listContracts", "signer_importContract", "signer_generateMnemonic"}

\* the answer of the IoHandler to a name nothing was registered for
method_not_found == [kind |-> "method_not_found", msg |-> "Method not found", value |-> Null]

\* parse: params that do not deserialize
parse_error ==
    [kind |-> "invalid_params", msg |-> "Corrupted input parameters", value |-> Null]

(***************************************************************************)
(* Request inputs.                                                         *)
(***************************************************************************)
ChainParams == {"eth", "etc", "bogus"}
AddressParams == {"0xa1", "0xa2", "zz"}
Names == {"", "a"}
Descriptions == {"", "d"}
Mnemonics == {"m1", "not a mnemonic"}
HdPaths ==
    {<< "m", "/", "4", "4", "'", "/", "6", "0", "'" >>, << "4", "4", "/", "6", "0" >>}

\* the draws of one OsRng in a handler: the uuid, salt and IV of a keyfile and
\* the key PrivateKey::gen_custom makes of it (never the zero key); two
\* streams of salt and IV bytes stand for all of them
Rngs == {[uuid |-> u, salt |-> e, iv |-> 1 - e, pk |-> k] : u \in Uuids, e \in Salts, k \in {1, 2}}

\* Address::from_str and Display of Address
Address_from_str(s) ==
    CASE s = "0xa1" -> Ok(11) [] s = "0xa2" -> Ok(12) [] s = "0xa3" -> Ok(13)
      [] OTHER -> Err("Invalid hex data length: " \o s)

Address_to_string(a) ==
    CASE a = 11 -> "0xa1" [] a = 12 -> "0xa2" [] a = 13 -> "0xa3" [] OTHER -> "0x00"

\* extract_chain_params: the chain name of the trailing "additional" object
extract_chain_params(additional) == Ok(additional.chain)

\* Kdf::from(KdfDepthLevel): scrypt at the depth of the level
Kdf_from(sec) == "scrypt"

\* the server's security level (start: sec_level.unwrap_or_default())
sec_level == "Normal"

\* KeyFile::new: a fresh key from the rng, then new_custom
KeyFile_new(passphrase, sec, name, description, rng) ==
    new_custom(rng.pk, passphrase, Kdf_from(sec), rng, name, description)

\* serde_json::to_value(&kf): the canonical v3 JSON of a keyfile
encode(kf) ==
    [version |-> 3, id |-> kf.uuid, address |-> kf.address,
     name |-> kf.name, description |-> kf.description, visible |-> kf.visible,
     crypto |-> [cipher |-> kf.crypto.cipher,
                 cipherparams |-> [iv |-> kf.crypto.iv],
                 ciphertext |-> kf.crypto.cipher_text,
                 kdf |-> kf.crypto.kdf,
                 kdfparams |-> [dklen |-> 32, salt |-> kf.crypto.salt],
                 mac |-> kf.crypto.mac]]

\* KeyFile::decode
decode(raw) ==
    IF raw.version # 3 THEN Err("UnsupportedVersion")
    ELSE Ok([visible |-> raw.visible, name |-> raw.name,
             description |-> raw.description, address |-> raw.address,
             uuid |-> raw.id,
             crypto |-> [cipher |-> raw.crypto.cipher,
                         iv |-> raw.crypto.cipherparams.iv,
                         cipher_text |-> raw.crypto.ciphertext,
                         kdf |-> raw.crypto.kdf,
                         salt |-> raw.crypto.kdfparams.salt,
                         mac |-> raw.crypto.mac]])

\* keyfile JSON a caller may import: written by another wallet, so nothing
\* ties its uuid, its address field or its key to what the partition holds
ForeignKeyFile(uuid, pk, passphrase, address, name) ==
    [encrypt_key_custom([DefaultKeyFile EXCEPT !.uuid = uuid, !.crypto.kdf = "pbkdf2",
                                               !.visible = None, !.name = name],
                        pk, passphrase, [salt |-> 1, iv |-> 0])
     EXCEPT !.address = address]

ImportRaws ==
    {encode(ForeignKeyFile(1, 0, "p", 11, None)),
     encode(ForeignKeyFile(2, 2, "q", 12, Some("a"))),
     encode(ForeignKeyFile(1, 1, "q", 11, Some(""))),
     [encode(ForeignKeyFile(2, 2, "q", 12, None)) EXCEPT !.version = 1]}

\* Transaction::to_signed_raw and PrivateKey::sign_hash: secp256k1 rejects
\* the zero key
to_signed_raw(tr, pk) == IF pk = 0 THEN Err("EcdsaCrypto(InvalidSecretKey)") ELSE Ok(<< "rlp", tr, pk >>)
sign_hash(pk, hash) == IF pk = 0 THEN Err("ECDSA crypto error: InvalidSecretKey") ELSE Ok(<< "sig", hash, pk >>)

\* Mnemonic::try_from, HDPath::try_from, hd_path::generate_key
Mnemonic_try_from(m) == IF m = "m1" THEN Ok(m) ELSE Err("invalid word in phrase")
\* integers of 2^31 and more are kept as big-endian byte strings: u32 is
\* four bytes, u64 eight
Digits == << "0", "1", "2", "3", "4", "5", "6", "7", "8", "9" >>
IsDigit(c) == \E i \in 1..10 : Digits[i] = c
DigitVal(c) == (CHOOSE i \in 1..10 : Digits[i] = c) - 1
Zero(w) == IF w = 4 THEN << 0, 0, 0, 0 >> ELSE << 0, 0, 0, 0, 0, 0, 0, 0 >>

\* b * m + a from byte i down to the most significant one, with the carry
\* that does not fit
RECURSIVE MulAdd(_, _, _, _)
MulAdd(b, m, a, i) ==
    IF i = 0 THEN [val |-> b, carry |-> a]
    ELSE LET t == b[i] * m + a
         IN  MulAdd([b EXCEPT ![i] = t % 256], m, t \div 256, i - 1)

\* a + b on byte strings of equal width
RECURSIVE AddBytes(_, _, _, _)
AddBytes(a, b, carry, i) ==
    IF i = 0 THEN [val |-> a, carry |-> carry]
    ELSE LET t == a[i] + b[i] + carry
         IN  AddBytes([a EXCEPT ![i] = t % 256], b, t \div 256, i - 1)

\* FromStr for u32 and u64: an optional "+", then decimal digits, checked
\* for overflow of the width w
RECURSIVE parse_digits(_, _, _)
parse_digits(s, acc, w) ==
    IF s = << >> THEN Ok(acc)
    ELSE IF ~IsDigit(Head(s)) THEN Err("invalid digit found in string")
    ELSE LET r == MulAdd(acc, 10, DigitVal(Head(s)), w)
         IN  IF r.carry # 0 THEN Err("number too large to fit in target type")
             ELSE parse_digits(Tail(s), r.val, w)

str_parse(s, w) ==
    IF s = << >> THEN Err("cannot parse integer from empty string")
    ELSE IF s = << "+" >> \/ s = << "-" >> THEN Err("invalid digit found in string")
    ELSE IF Head(s) = "+" THEN parse_digits(Tail(s), Zero(w), w)
    ELSE parse_digits(s, Zero(w), w)

\* HD_PATH_RE.is_match: ^m/{1}[^0-9'/]* matches every string that starts
\* with "m/"
HD_PATH_RE_is_match(path) == Len(path) >= 2 /\ path[1] = "m" /\ path[2] = "/"

\* str::split('/'): the pieces between the separators, an empty string
\* giving one empty piece
split(s) ==
    LET P == {i \in 1..Len(s) : s[i] = "/"}
        rank == [p \in P |-> Cardinality({q \in P : q < p})]
        at == [j \in 1..Cardinality(P) |-> CHOOSE p \in P : rank[p] = j - 1]
        n == Cardinality(P) + 1
    IN  [j \in 1..n |->
           SubSeq(s, IF j = 1 THEN 1 ELSE at[j - 1] + 1,
                     IF j = n THEN Len(s) ELSE at[j] - 1)]

ends_with_apostrophe(seg) == seg # << >> /\ seg[Len(seg)] = "'"
pop(seg) == SubSeq(seg, 1, Len(seg) - 1)

\* ChildNumber::from_hardened_idx / from_normal_idx: an index with the top
\* bit set is refused
ChildNumber_from_idx(is_hardened, index) ==
    IF index[1] >= 128 THEN Err("BIP32 generation error: invalid child number")
    ELSE Ok([hardened |-> is_hardened, index |-> index])

\* the body of the loop of HDPath::try_from for one segment
child_number(seg) ==
    LET is_hardened == ends_with_apostrophe(seg)
        index == str_parse(IF is_hardened THEN pop(seg) ELSE seg, 4)
    IN  IF ~index.ok
        THEN Err("Mnemonic generation error: Invalid HD path child index: " \o index.err)
        ELSE ChildNumber_from_idx(is_hardened, Unwrap(index))

\* the loop of HDPath::try_from: the first segment that fails ends it
child_numbers(segs) ==
    LET cs == [i \in 1..Len(segs) |-> child_number(segs[i])]
        bad == {i \in 1..Len(segs) : ~cs[i].ok}
    IN  IF bad # {} THEN Err(cs[CHOOSE i \in bad : \A j \in bad : i <= j].err)
        ELSE Ok([i \in 1..Len(segs) |-> Unwrap(cs[i])])

\* HDPath::try_from
HDPath_try_from(path) ==
    IF ~HD_PATH_RE_is_match(path)
    THEN Err("Mnemonic generation error: Invalid HD path format")
    ELSE child_numbers(split(SubSeq(path, 3, Len(path))))
\* to_bytes(v, 4): the low four bytes of a u64, big-endian
to_bytes(v) == SubSeq(v, 5, 8)

DERIVATION_INDEX_SIZE == 4

\* 0x8000_0000 as u64
HardenedBit == << 0, 0, 0, 0, 128, 0, 0, 0 >>

\* the closure parse of path_to_arr for one segment; v += d overflows u64
\* for the largest d: a debug build panics there, a release build wraps
path_to_arr_parse(seg, build) ==
    LET hardened == ends_with_apostrophe(seg)
        v0 == IF hardened THEN HardenedBit ELSE Zero(8)
        d == str_parse(IF hardened THEN pop(seg) ELSE seg, 8)
    IN  IF ~d.ok THEN [out |-> "err", bytes |-> << >>, err |-> "Invalid index"]
        ELSE LET v == AddBytes(v0, Unwrap(d), 0, 8)
             IN  IF v.carry # 0 /\ build = "debug"
                 THEN [out |-> "panic", bytes |-> << >>, err |-> ""]
                 ELSE [out |-> "ok", bytes |-> to_bytes(v.val), err |-> ""]

\* the loop of path_to_arr: the first segment that fails ends it
path_to_arr_loop(segs, build) ==
    LET rs == [i \in 1..Len(segs) |-> path_to_arr_parse(segs[i], build)]
        bad == {i \in 1..Len(segs) : rs[i].out # "ok"}
    IN  IF bad # {} THEN rs[CHOOSE i \in bad : \A j \in bad : i <= j]
        ELSE [out |-> "ok", err |-> "",
              bytes |-> [k \in 1..(4 * Len(segs)) |->
                           rs[((k - 1) \div 4) + 1].bytes[((k - 1) % 4) + 1]]]

\* path_to_arr
path_to_arr(hd_str, build) ==
    IF ~HD_PATH_RE_is_match(hd_str)
    THEN [out |-> "err", bytes |-> << >>, err |-> "Invalid hd_path format"]
    ELSE path_to_arr_loop(split(SubSeq(hd_str, 3, Len(hd_str))), build)

\* to_prefixed_path: count is (v.len() / DERIVATION_INDEX_SIZE) as u8
to_prefixed_path(hd_str, build) ==
    LET v == path_to_arr(hd_str, build)
    IN  IF v.out # "ok" THEN v
        ELSE [v EXCEPT !.bytes = << (Len(v.bytes) \div DERIVATION_INDEX_SIZE) % 256 >> \o @]

generate_key(path, seed) == Ok(2)

(***************************************************************************)
(* EIP-712 typed data (src/util/typed.rs).  Type names, kinds and field    *)
(* names are strings of characters; a type map takes a name to the list of *)
(* its members [name, kind] in declaration order.                          *)
(***************************************************************************)
\* the characters used, in the byte order that String's Ord compares by
AsciiOrder ==
    << " ", "(", ")", ",", "-", "0", "1", "2", "3", "4", "5", "6", "7", "8", "9",
       "A", "B", "C", "D", "[", "]", "_", "a", "b", "c", "d", "e", "f", "g",
       "i", "n", "r", "s", "t", "u", "x", "y" >>
Ord(c) == CHOOSE i \in 1..Len(AsciiOrder) : AsciiOrder[i] = c

KindString == << "s", "t", "r", "i", "n", "g" >>

\* \w of the regex crate restricted to the characters used
IsWordChar(c) == c \notin {" ", "(", ")", ",", "-", "[", "]"}

\* TYPE_NAME_MATCHER.find_iter(s).nth(0): "^\w*" matches the longest prefix
\* of word characters, the empty one included
TYPE_NAME_MATCHER(s) ==
    LET stop == {i \in 1..Len(s) : ~IsWordChar(s[i])}
    IN  IF stop = {} THEN s
        ELSE SubSeq(s, 1, (CHOOSE i \in stop : \A j \in stop : i <= j) - 1)

contains(results, x) == \E i \in 1..Len(results) : results[i] = x

\* every dependency pushed, known or not
push_new_All(results, deps) == results \o deps

\* for dep in deps { if results.iter().all(|x| x != &dep) { results.push(dep) } }
RECURSIVE push_new(_, _)
push_new(results, deps) ==
    IF deps = << >> THEN results
    ELSE push_new(IF contains(results, Head(deps)) THEN results
                  ELSE Append(results, Head(deps)),
                  Tail(deps))

RECURSIVE find_type_dependencies(_, _, _)
RECURSIVE for_fields(_, _, _)
find_type_dependencies(primary_type, types, results) ==
    LET name == TYPE_NAME_MATCHER(primary_type)
    IN  IF contains(results, name) \/ name \notin DOMAIN types THEN results
        ELSE for_fields(types[name], types, Append(results, name))

\* for field in &types[primary_type] { ... find_type_dependencies(&field.kind, types, results.clone()) ... }
for_fields(fields, types, results) ==
    IF fields = << >> THEN results
    ELSE for_fields(Tail(fields), types,
                    push_new(results,
                             find_type_dependencies(Head(fields).kind, types, results)))

\* Ord for String: bytewise lexicographic, a proper prefix first
RECURSIVE str_lt(_, _)
str_lt(a, b) ==
    IF b = << >> THEN FALSE
    ELSE IF a = << >> THEN TRUE
    ELSE IF Head(a) # Head(b) THEN Ord(Head(a)) < Ord(Head(b))
    ELSE str_lt(Tail(a), Tail(b))

\* the dependencies left in the order of discovery
sort_Unsorted(deps) == deps

\* deps.sort()
RECURSIVE sort(_)
sort(deps) ==
    IF deps = << >> THEN << >>
    ELSE LET rest == sort(Tail(deps))
             before == {i \in 1..Len(rest) : ~str_lt(Head(deps), rest[i])}
         IN  SubSeq(rest, 1, Cardinality(before)) \o << Head(deps) >>
                \o SubSeq(rest, Cardinality(before) + 1, Len(rest))

\* children.iter().map(|child| format!("{} {}", child.kind, child.name)).join(",")
RECURSIVE join_children(_)
join_children(children) ==
    IF children = << >> THEN << >>
    ELSE Head(children).kind \o << " " >> \o Head(children).name
           \o (IF Tail(children) = << >> THEN << >> ELSE << "," >>)
           \o join_children(Tail(children))

RECURSIVE encode_type_loop(_, _, _)
encode_type_loop(deps, types, result) ==
    IF deps = << >> THEN Ok(result)
    ELSE IF Head(deps) \notin DOMAIN types THEN Err("No type definition specified")
    ELSE encode_type_loop(Tail(deps), types,
                          result \o Head(deps) \o << "(" >>
                             \o join_children(types[Head(deps)]) \o << ")" >>)

encode_type(primary_type, types) ==
    LET deps == sort(find_type_dependencies(primary_type, types, << >>))
        others == SelectSeq(deps, LAMBDA dep : dep # primary_type)
    IN  encode_type_loop(<< primary_type >> \o others, types, << >>)

\* serde_json::Value
JNull == [t |-> "null", n |-> 0, s |-> << >>, items |-> << >>, names |-> << >>]
JBool(b) == [JNull EXCEPT !.t = "bool", !.n = IF b THEN 1 ELSE 0]
JNum(n) == [JNull EXCEPT !.t = "number", !.n = n]
JStr(s) == [JNull EXCEPT !.t = "string", !.s = s]
JArr(items) == [JNull EXCEPT !.t = "array", !.items = items]
JObj(names, items) == [JNull EXCEPT !.t = "object", !.names = names, !.items = items]

\* Map::get
get(data, name) ==
    LET at == {i \in 1..Len(data.names) : data.names[i] = name}
    IN  IF at = {} THEN None ELSE Some(data.items[CHOOSE i \in at : TRUE])

\* A 32-byte word is either given by its bytes or is the keccak256 digest of
\* a preimage: bytes, the UTF-8 bytes of a text, or a sequence of words.
RECURSIVE Zeros(_)
Zeros(n) == IF n = 0 THEN << >> ELSE << 0 >> \o Zeros(n - 1)
Raw(bytes) == [hash |-> FALSE, pre |-> << >>, bytes |-> bytes, text |-> << >>]
util_keccak256(pre, bytes, text) == [hash |-> TRUE, pre |-> pre, bytes |-> bytes, text |-> text]

\* ethabi::Token, each variant used here one word wide
Token(tag, word) == [tag |-> tag, word |-> word]

\* ethabi::encode of static tokens: their words one after the other
RECURSIVE ethabi_encode(_)
ethabi_encode(tokens) ==
    IF tokens = << >> THEN << >>
    ELSE << Head(tokens).word >> \o ethabi_encode(Tail(tokens))

HexDigits == << "0", "1", "2", "3", "4", "5", "6", "7", "8", "9", "a", "b", "c", "d", "e", "f" >>
IsHex(c) == \E i \in 1..16 : HexDigits[i] = c
HexVal(c) == (CHOOSE i \in 1..16 : HexDigits[i] = c) - 1
RECURSIVE HexBytes(_)
HexBytes(s) ==
    IF s = << >> THEN << >>
    ELSE << 16 * HexVal(s[1]) + HexVal(s[2]) >> \o HexBytes(SubSeq(s, 3, Len(s)))

\* hex::decode: pairs of hex digits, no prefix
hex_decode(s) ==
    IF Len(s) % 2 # 0 THEN Err("Odd number of digits")
    ELSE IF \E i \in 1..Len(s) : ~IsHex(s[i]) THEN Err("Invalid character")
    ELSE Ok(HexBytes(s))

\* Address::from_str: "0x" and 40 hex digits
Address_from_chars(s) ==
    IF Len(s) = 42 /\ s[1] = "0" /\ s[2] = "x" /\ \A i \in 3..42 : IsHex(s[i])
    THEN Ok(HexBytes(SubSeq(s, 3, 42)))
    ELSE Err("Invalid hex data length")

\* U256::from_str: the string read as hexadecimal digits
U256_from_str(s) ==
    IF s = << >> \/ Len(s) > 64 \/ \E i \in 1..Len(s) : ~IsHex(s[i])
    THEN Err("failed to deserialize")
    ELSE LET even == IF Len(s) % 2 = 0 THEN s ELSE << "0" >> \o s
         IN  Ok(Zeros(32 - (Len(even) \div 2)) \o HexBytes(even))

\* format!("{}", n) of a serde_json Number that is an integer
RECURSIVE format_digits(_)
format_digits(n) ==
    IF n < 10 THEN << Digits[n + 1] >>
    ELSE format_digits(n \div 10) \o << Digits[(n % 10) + 1] >>
format_number(n) == IF n < 0 THEN << "-" >> \o format_digits(0 - n) ELSE format_digits(n)

starts_with(s, prefix) == Len(s) >= Len(prefix) /\ SubSeq(s, 1, Len(prefix)) = prefix
ends_with(s, c) == s # << >> /\ s[Len(s)] = c

KindBytes == << "b", "y", "t", "e", "s" >>
KindBool == << "b", "o", "o", "l" >>
KindAddress == << "a", "d", "d", "r", "e", "s", "s" >>
KindInt == << "i", "n", "t" >>
KindUint == << "u", "i", "n", "t" >>

\* the arms of lines 146 and 163
IntArm == {KindInt \o w : w \in {<< >>, << "8" >>, << "1", "6" >>, << "3", "2" >>,
                                 << "6", "4" >>, << "1", "2", "8" >>, << "2", "5", "6" >>}}
UintArm == {<< "u" >> \o k : k \in IntArm}

\* kind[..index] of lines 112-114
parsed_type(kind) ==
    LET open == {i \in 1..Len(kind) : kind[i] = "["}
        r_index == IF open = {} THEN 0
                   ELSE Len(kind) - (CHOOSE i \in open : \A j \in open : j <= i)
    IN  SubSeq(kind, 1, Len(kind) - 1 - r_index)

RECURSIVE encode_field(_, _, _, _)
RECURSIVE encode_data(_, _, _)
RECURSIVE encode_items(_, _, _, _)
RECURSIVE encode_members(_, _, _)

\* lines 121-124: the first error ends the collect
encode_items(name, kind, items, types) ==
    IF items = << >> THEN Ok(<< >>)
    ELSE LET token == encode_field(name, kind, Some(Head(items)), types)
         IN  IF ~token.ok THEN token
             ELSE LET rest == encode_items(name, kind, Tail(items), types)
                  IN  IF ~rest.ok THEN rest
                      ELSE Ok(<< Unwrap(token) >> \o Unwrap(rest))

\* lines 58-62
encode_members(fields, data, types) ==
    IF fields = << >> THEN Ok(<< >>)
    ELSE LET token == encode_field(Head(fields).name, Head(fields).kind,
                                   get(data, Head(fields).name), types)
         IN  IF ~token.ok THEN token
             ELSE LET rest == encode_members(Tail(fields), data, types)
                  IN  IF ~rest.ok THEN rest
                      ELSE Ok(<< Unwrap(token) >> \o Unwrap(rest))

encode_data(primary_type, message, types) ==
    LET type_text == encode_type(primary_type, types)
    IN  IF ~type_text.ok THEN type_text
        ELSE IF message.t # "object"
        THEN Err("encode_data(message) argument should be a JSON object")
        ELSE LET tokens == encode_members(types[primary_type], message, types)
             IN  IF ~tokens.ok THEN tokens
                 ELSE Ok(ethabi_encode(
                            << Token("FixedBytes",
                                     util_keccak256(<< >>, << >>, Unwrap(type_text))) >>
                               \o Unwrap(tokens)))

encode_number(tag, value) ==
    IF value.t \notin {"string", "number"}
    THEN Err("value must be a hex-encoded string or a number")
    ELSE LET string_repr == IF value.t = "string" THEN value.s ELSE format_number(value.n)
             parsed == U256_from_str(string_repr)
         IN  IF ~parsed.ok THEN parsed ELSE Ok(Token(tag, Raw(Unwrap(parsed))))

encode_field(name, kind, value, types) ==
    IF kind \in DOMAIN types
    THEN IF value = None \/ value = Some(JNull)
         THEN Ok(Token("FixedBytes", Raw(Zeros(32))))
         ELSE LET data == encode_data(kind, value[1], types)
              IN  IF ~data.ok THEN data
                  ELSE Ok(Token("FixedBytes", util_keccak256(Unwrap(data), << >>, << >>)))
    ELSE IF value = None THEN Err("missing value for field")
    ELSE IF starts_with(kind, KindBytes)
    THEN IF value[1].t # "string"
         THEN Err("value of type 'bytes*' must be a hex-encoded string")
         ELSE LET bytes == hex_decode(value[1].s)
              IN  IF ~bytes.ok THEN bytes
                  ELSE Ok(Token("FixedBytes", util_keccak256(<< >>, Unwrap(bytes), << >>)))
    ELSE IF kind = KindString
    THEN IF value[1].t # "string" THEN Err("value of type 'string' must be a string")
         ELSE Ok(Token("FixedBytes", util_keccak256(<< >>, << >>, value[1].s)))
    ELSE IF ends_with(kind, "]")
    THEN IF value[1].t # "array" THEN Err("value must be an array")
         ELSE LET tokens == encode_items(name, parsed_type(kind), value[1].items, types)
              IN  IF ~tokens.ok THEN tokens
                  ELSE Ok(Token("FixedBytes",
                                util_keccak256(ethabi_encode(Unwrap(tokens)), << >>, << >>)))
    ELSE IF kind = KindBool
    THEN IF value[1].t # "bool" THEN Err("value of type 'bool' must be either true or false")
         ELSE Ok(Token("Bool", Raw(Zeros(31) \o << value[1].n >>)))
    ELSE IF kind = KindAddress
    THEN IF value[1].t # "string"
         THEN Err("value of type 'address' must be a hex-encoded string")
         ELSE LET address == Address_from_chars(value[1].s)
              IN  IF ~address.ok THEN address
                  ELSE Ok(Token("Address", Raw(Zeros(12) \o Unwrap(address))))
    ELSE IF kind \in IntArm THEN encode_number("Int", value[1])
    ELSE IF kind \in UintArm THEN encode_number("Uint", value[1])
    ELSE Err("unknown type")

(***************************************************************************)
(* Handlers (src/rpc/serves.rs).  Each is the set of the outcomes the body *)
(* can have once it holds the lock: the scan order of the storage, a       *)
(* backend IO error and the draws of the rng are not the caller's.         *)
(***************************************************************************)
\* the part shared by the handlers that look an address up:
\* extract_chain_params?, get_keystore?, Address::from_str?
Lookup(chain, address, ctrl) ==
    LET st == get_keystore(ctrl, Unwrap(extract_chain_params([chain |-> chain])))
        addr == Address_from_str(address)
    IN  IF ~st.ok THEN Err(From_storage(st.err))
        ELSE IF ~addr.ok THEN Err(From_core(addr.err))
        ELSE Ok([chain |-> Unwrap(st), addr |-> Unwrap(addr)])

\* storage.put(&kf)? followed by Ok(v)
PutThen(ctrl, chain, kf, v) ==
    {IF r.ok THEN HOk(v, [ctrl EXCEPT ![chain] = Unwrap(r)])
     ELSE HErr(From_storage(r.err), ctrl) : r \in put_results(ctrl[chain], kf)}

list_accounts(additional, ctrl) ==
    LET st == get_keystore(ctrl, Unwrap(extract_chain_params(additional)))
    IN  IF ~st.ok THEN {HErr(From_storage(st.err), ctrl)}
        ELSE {HOk(to_value("accounts", storage_list_accounts(ctrl[Unwrap(st)],
                                                         additional.show_hidden)), ctrl)}

hide_account(account, additional, ctrl) ==
    LET l == Lookup(additional.chain, account.address, ctrl)
    IN  IF ~l.ok THEN {HErr(l.err, ctrl)}
        ELSE {IF r.ok THEN HOk(to_value("bool", TRUE), [ctrl EXCEPT ![Unwrap(l).chain] = Unwrap(r)])
              ELSE HErr(From_storage(r.err), ctrl)
              : r \in hide(ctrl[Unwrap(l).chain], Unwrap(l).addr)}

unhide_account(account, additional, ctrl) ==
    LET l == Lookup(additional.chain, account.address, ctrl)
    IN  IF ~l.ok THEN {HErr(l.err, ctrl)}
        ELSE {IF r.ok THEN HOk(to_value("bool", TRUE), [ctrl EXCEPT ![Unwrap(l).chain] = Unwrap(r)])
              ELSE HErr(From_storage(r.err), ctrl)
              : r \in unhide(ctrl[Unwrap(l).chain], Unwrap(l).addr)}

shake_account(account, additional, ctrl, rng) ==
    LET l == Lookup(additional.chain, account.address, ctrl)
    IN  IF ~l.ok THEN {HErr(l.err, ctrl)}
        ELSE UNION {
            IF ~sr.ok THEN {HErr(From_storage(sr.err), ctrl)}
            ELSE LET kf == Unwrap(sr)
                     pk == decrypt_key(kf, account.old_passphrase)
                 IN  IF ~pk.ok THEN {HErr(From_keystore(pk.err), ctrl)}
                     ELSE LET new_kf == new_custom(Unwrap(pk), account.new_passphrase,
                                                   kf.crypto.kdf, rng, kf.name,
                                                   kf.description)
                          IN  IF ~new_kf.ok THEN {HErr(From_keystore(new_kf.err), ctrl)}
                              ELSE PutThen(ctrl, Unwrap(l).chain, Unwrap(new_kf), to_value("bool", TRUE))
            : sr \in search_by_address(ctrl[Unwrap(l).chain], Unwrap(l).addr)}

update_account_FreshKeyFile(account, additional, ctrl) ==
    LET l == Lookup(additional.chain, account.address, ctrl)
    IN  IF ~l.ok THEN {HErr(l.err, ctrl)}
        ELSE UNION {
            IF ~sr.ok THEN {HErr(From_storage(sr.err), ctrl)}
            ELSE LET kf == Unwrap(sr)
                     kf1 == [DefaultKeyFile EXCEPT !.uuid = kf.uuid, !.address = kf.address,
                                                   !.name = Some(account.name),
                                                   !.description = Some(account.description)]
                 IN  PutThen(ctrl, Unwrap(l).chain, kf1, to_value("bool", TRUE))
            : sr \in search_by_address(ctrl[Unwrap(l).chain], Unwrap(l).addr)}

update_account_AlwaysSets(account, additional, ctrl) ==
    LET l == Lookup(additional.chain, account.address, ctrl)
    IN  IF ~l.ok THEN {HErr(l.err, ctrl)}
        ELSE UNION {
            IF ~sr.ok THEN {HErr(From_storage(sr.err), ctrl)}
            ELSE LET kf == Unwrap(sr)
                     kf2 == [kf EXCEPT !.name = Some(account.name),
                                       !.description = Some(account.description)]
                 IN  PutThen(ctrl, Unwrap(l).chain, kf2, to_value("bool", TRUE))
            : sr \in search_by_address(ctrl[Unwrap(l).chain], Unwrap(l).addr)}

update_account(account, additional, ctrl) ==
    LET l == Lookup(additional.chain, account.address, ctrl)
    IN  IF ~l.ok THEN {HErr(l.err, ctrl)}
        ELSE UNION {
            IF ~sr.ok THEN {HErr(From_storage(sr.err), ctrl)}
            ELSE LET kf == Unwrap(sr)
                     kf1 == IF account.name # "" THEN [kf EXCEPT !.name = Some(account.name)]
                            ELSE kf
                     kf2 == IF account.description # ""
                            THEN [kf1 EXCEPT !.description = Some(account.description)]
                            ELSE kf1
                 IN  PutThen(ctrl, Unwrap(l).chain, kf2, to_value("bool", TRUE))
            : sr \in search_by_address(ctrl[Unwrap(l).chain], Unwrap(l).addr)}

import_account_AcrossChains(raw, additional, ctrl) ==
    LET st == get_keystore(ctrl, Unwrap(extract_chain_params(additional)))
        kf == decode(raw)
    IN  IF ~st.ok THEN {HErr(From_storage(st.err), ctrl)}
        ELSE IF ~kf.ok THEN {HErr(InvalidDataFormat("Invalid serialization for keystore"), ctrl)}
        ELSE {HOk(to_value("string", Address_to_string(Unwrap(kf).address)),
                  [c \in DOMAIN ctrl |->
                     IF c = Unwrap(st) THEN put(ctrl[c], Unwrap(kf))
                     ELSE {k \in ctrl[c] : k.uuid # Unwrap(kf).uuid}])}

import_account(raw, additional, ctrl) ==
    LET st == get_keystore(ctrl, Unwrap(extract_chain_params(additional)))
        kf == decode(raw)
    IN  IF ~st.ok THEN {HErr(From_storage(st.err), ctrl)}
        ELSE IF ~kf.ok THEN {HErr(InvalidDataFormat("Invalid serialization for keystore"), ctrl)}
        ELSE PutThen(ctrl, Unwrap(st), Unwrap(kf), to_value("string", Address_to_string(Unwrap(kf).address)))

export_account_Removes(account, additional, ctrl) ==
    LET l == Lookup(additional.chain, account.address, ctrl)
    IN  IF ~l.ok THEN {HErr(l.err, ctrl)}
        ELSE {IF ~sr.ok THEN HErr(From_storage(sr.err), ctrl)
              ELSE HOk(to_value("keyfile", encode(Unwrap(sr))),
                       [ctrl EXCEPT ![Unwrap(l).chain] = @ \ {Unwrap(sr)}])
              : sr \in search_by_address(ctrl[Unwrap(l).chain], Unwrap(l).addr)}

export_account(account, additional, ctrl) ==
    LET l == Lookup(additional.chain, account.address, ctrl)
    IN  IF ~l.ok THEN {HErr(l.err, ctrl)}
        ELSE {IF ~sr.ok THEN HErr(From_storage(sr.err), ctrl)
              ELSE HOk(to_value("keyfile", encode(Unwrap(sr))), ctrl)
              : sr \in search_by_address(ctrl[Unwrap(l).chain], Unwrap(l).addr)}

new_account_PutFirst(account, additional, sec, ctrl, rng) ==
    LET st == get_keystore(ctrl, Unwrap(extract_chain_params(additional)))
        kf == KeyFile_new(account.passphrase, sec, Some(account.name),
                          Some(account.description), rng)
    IN  IF ~st.ok THEN {HErr(From_storage(st.err), ctrl)}
        ELSE IF ~kf.ok THEN {HErr(From_keystore(kf.err), ctrl)}
        ELSE {IF o.out = "ok" /\ account.passphrase = ""
              THEN HErr(InvalidDataFormat("Empty passphrase"), o.ks) ELSE o
              : o \in PutThen(ctrl, Unwrap(st), Unwrap(kf),
                              to_value("string", Address_to_string(Unwrap(kf).address)))}

new_account_NoPut(account, additional, sec, ctrl, rng) ==
    LET st == get_keystore(ctrl, Unwrap(extract_chain_params(additional)))
        kf == KeyFile_new(account.passphrase, sec, Some(account.name),
                          Some(account.description), rng)
    IN  IF ~st.ok THEN {HErr(From_storage(st.err), ctrl)}
        ELSE IF account.passphrase = "" THEN {HErr(InvalidDataFormat("Empty passphrase"), ctrl)}
        ELSE IF ~kf.ok THEN {HErr(From_keystore(kf.err), ctrl)}
        ELSE {HOk(to_value("string", Address_to_string(Unwrap(kf).address)), ctrl)}

new_account(account, additional, sec, ctrl, rng) ==
    LET st == get_keystore(ctrl, Unwrap(extract_chain_params(additional)))
        kf == KeyFile_new(account.passphrase, sec, Some(account.name),
                          Some(account.description), rng)
    IN  IF ~st.ok THEN {HErr(From_storage(st.err), ctrl)}
        ELSE IF account.passphrase = "" THEN {HErr(InvalidDataFormat("Empty passphrase"), ctrl)}
        ELSE IF ~kf.ok THEN {HErr(From_keystore(kf.err), ctrl)}
        ELSE PutThen(ctrl, Unwrap(st), Unwrap(kf), to_value("string", Address_to_string(Unwrap(kf).address)))

sign_transaction(transaction, passphrase, additional, ctrl) ==
    LET l == Lookup(additional.chain, transaction.from, ctrl)
    IN  IF ~l.ok THEN {HErr(l.err, ctrl)}
        ELSE {
            IF ~sr.ok THEN HErr(InvalidDataFormat("Can't find account"), ctrl)
            ELSE IF ~transaction.well_formed
                 THEN HErr(InvalidDataFormat("Invalid hex data length"), ctrl)
            ELSE IF passphrase = "" THEN HErr(InvalidDataFormat("Missing passphrase"), ctrl)
            ELSE LET pk == decrypt_key(Unwrap(sr), passphrase)
                 IN  IF ~pk.ok THEN HErr(InvalidDataFormat("Invalid passphrase"), ctrl)
                     ELSE LET raw == to_signed_raw(transaction, Unwrap(pk))
                          IN  IF ~raw.ok THEN HPanic(ctrl)  \* .expect("Expect to sign a transaction")
                              ELSE HOk(to_value("raw", Unwrap(raw)), ctrl)
            : sr \in search_by_address(ctrl[Unwrap(l).chain], Unwrap(l).addr)}

\* sign and sign_typed_data after the hash is computed
SignHash(hash, passphrase, l, ctrl) ==
    {IF ~sr.ok THEN HErr(InvalidDataFormat("Can't find account"), ctrl)
     ELSE IF passphrase = "" THEN HErr(InvalidDataFormat("Missing passphrase"), ctrl)
     ELSE LET pk == decrypt_key(Unwrap(sr), passphrase)
          IN  IF ~pk.ok THEN HErr(InvalidDataFormat("Invalid passphrase"), ctrl)
              ELSE LET signed == sign_hash(Unwrap(pk), hash)
                   IN  IF ~signed.ok THEN HErr(From_core(signed.err), ctrl)
                       ELSE HOk(to_value("signature", Unwrap(signed)), ctrl)
     : sr \in search_by_address(ctrl[l.chain], l.addr)}

sign(input, address, passphrase, additional, ctrl) ==
    LET l == Lookup(additional.chain, address, ctrl)
    IN  IF ~l.ok THEN {HErr(l.err, ctrl)}
        ELSE SignHash(<< "personal", input >>, passphrase, Unwrap(l), ctrl)

sign_typed_data(address, typed_data, passphrase, additional, ctrl) ==
    LET l == Lookup(additional.chain, address, ctrl)
    IN  IF ~l.ok THEN {HErr(l.err, ctrl)}
        ELSE IF ~typed_data.well_formed
             THEN {HErr(TypedDataError("Invalid typed data"), ctrl)}
        ELSE SignHash(<< "typed", typed_data >>, passphrase, Unwrap(l), ctrl)

import_mnemonic(account, additional, sec, ctrl, rng) ==
    LET st == get_keystore(ctrl, Unwrap(extract_chain_params(additional)))
        mnemonic == Mnemonic_try_from(account.mnemonic)
        hd_path == HDPath_try_from(account.hd_path)
    IN  IF ~st.ok THEN {HErr(From_storage(st.err), ctrl)}
        ELSE IF account.passphrase = "" THEN {HErr(InvalidDataFormat("Empty passphrase"), ctrl)}
        ELSE IF ~mnemonic.ok THEN {HErr(MnemonicError(mnemonic.err), ctrl)}
        ELSE IF ~hd_path.ok THEN {HErr(MnemonicError(hd_path.err), ctrl)}
        ELSE LET pk == generate_key(Unwrap(hd_path), Unwrap(mnemonic))
                 kf == new_custom(Unwrap(pk), account.passphrase, Kdf_from(sec), rng,
                                  Some(account.name), Some(account.description))
             IN  IF ~kf.ok THEN {HErr(From_keystore(kf.err), ctrl)}
                 ELSE PutThen(ctrl, Unwrap(st), Unwrap(kf),
                              to_value("string", Address_to_string(Unwrap(kf).address)))

\* openrpc_discover: uses no storage and takes no lock
openrpc_discover == HOk(to_value("string", "openrpc.json"), StorageController_new)

(***************************************************************************)
(* State.                                                                  *)
(***************************************************************************)
VARIABLES
    keyfile_storages,   \* StorageController.keyfile_storages: chain -> keyfiles
    mutex,              \* Arc<Mutex<StorageController>>: locked and poison flags
    pc,                 \* where each worker thread of the server is
    req,                \* the request a thread has run
    resp,               \* what that request gives its caller
    pre,                \* keyfile_storages when the running handler took over
    served,             \* requests taken so far
    kcall               \* the keystore call under test and its result

vars == << keyfile_storages, mutex, pc, req, resp, pre, served, kcall >>
rpc_vars == << keyfile_storages, mutex, pc, req, resp, pre, served >>

Threads == {"t1", "t2"}

NoReq ==
    [method |-> "", chain |-> "", address |-> "", passphrase |-> "",
     new_passphrase |-> "", name |-> "", description |-> "", well_formed |-> TRUE]
NoResp == [kind |-> "", msg |-> "", value |-> Null]
NoCall ==
    [op |-> "", pk |-> 0, passphrase |-> "", ok |-> FALSE, err |-> "",
     kf |-> DefaultKeyFile, key |-> [ok |-> FALSE, val |-> << >>, err |-> "", cipher_ops |-> 0],
     address |-> Err(""),
     chain |-> "", addr |-> 0, show_hidden |-> FALSE, found |-> Err(""),
     accounts |-> << >>, puts |-> {},
     path |-> << >>, build |-> "", hd |-> Err(""),
     arr |-> [out |-> "", bytes |-> << >>, err |-> ""],
     types |-> << >>, primary |-> << >>, text |-> Err(""),
     initial |-> << >>, stack |-> << >>, done |-> FALSE, results |-> << >>,
     kind |-> << >>, value |-> None, token |-> Err("")]

\* what earlier runs of the server may have left under the base path: nothing;
\* an imported keyfile of a foreign wallet next to an account made by
\* signer_newAccount; the same account on two chains, hidden on one of them
OwnKeyFile ==
    Unwrap(new_custom(2, "q", "scrypt", [uuid |-> 2, salt |-> 0, iv |-> 1],
                      Some("a"), Some("d")))

InitStores ==
    {StorageController_new,
     [StorageController_new EXCEPT
        !["eth"] = {Unwrap(decode(encode(ForeignKeyFile(1, 0, "p", 11, None)))), OwnKeyFile}],
     [StorageController_new EXCEPT
        !["eth"] = {OwnKeyFile},
        !["etc"] = {[OwnKeyFile EXCEPT !.visible = Some(FALSE)]}]}

Init ==
    /\ keyfile_storages \in InitStores
    /\ mutex = [locked |-> FALSE, poisoned |-> FALSE]
    /\ pc = [t \in Threads |-> "idle"]
    /\ req = [t \in Threads |-> NoReq]
    /\ resp = [t \in Threads |-> NoResp]
    /\ pre = StorageController_new
    /\ served = 0
    /\ kcall = NoCall

(***************************************************************************)
(* The mutex around the controller: storage.lock().unwrap() is the first   *)
(* statement of every handler that uses storage, the guard is dropped when *)
(* the handler returns or unwinds.                                         *)
(***************************************************************************)
\* Mutex::lock gets through when no guard is alive
may_lock_Unguarded(m) == TRUE

may_lock(m) == ~m.locked

\* lock().unwrap() on a healthy mutex
Lock(t) ==
    /\ pc[t] = "idle"
    /\ served < MaxRequests
    /\ may_lock(mutex)
    /\ ~mutex.poisoned
    /\ mutex' = [mutex EXCEPT !.locked = TRUE]
    /\ pc' = [pc EXCEPT ![t] = "locked"]
    /\ served' = served + 1
    /\ UNCHANGED << keyfile_storages, req, resp, pre, kcall >>

\* lock() on a poisoned mutex is Err(PoisonError): unwrap() panics and the
\* guard inside the error is dropped again
LockPoisoned(t) ==
    /\ pc[t] = "idle"
    /\ served < MaxRequests
    /\ may_lock(mutex)
    /\ mutex.poisoned
    /\ pc' = [pc EXCEPT ![t] = "answered"]
    /\ req' = [req EXCEPT ![t] = [NoReq EXCEPT !.method = "lock"]]
    /\ resp' = [resp EXCEPT ![t] = respond(HPanic(keyfile_storages))]
    /\ served' = served + 1
    /\ UNCHANGED << keyfile_storages, mutex, pre, kcall >>

\* the body of a handler has run to its return value (or panic)
Finish(t, r, o) ==
    /\ keyfile_storages' = o.ks
    /\ pre' = keyfile_storages
    /\ req' = [req EXCEPT ![t] = r]
    /\ resp' = [resp EXCEPT ![t] = respond(o)]
    /\ pc' = [pc EXCEPT ![t] = "ran"]
    /\ UNCHANGED << mutex, served, kcall >>

\* the handler returns or unwinds: the guard is dropped, a panic poisons
Return(t) ==
    /\ pc[t] = "ran"
    /\ mutex' = [locked |-> FALSE, poisoned |-> mutex.poisoned \/ resp[t].kind = "panic"]
    /\ pc' = [pc EXCEPT ![t] = "idle"]
    /\ req' = [req EXCEPT ![t] = NoReq]
    /\ resp' = [resp EXCEPT ![t] = NoResp]
    /\ pre' = StorageController_new
    /\ UNCHANGED << keyfile_storages, served, kcall >>

\* a request that never held the lock is done
Deliver(t) ==
    /\ pc[t] = "answered"
    /\ pc' = [pc EXCEPT ![t] = "idle"]
    /\ req' = [req EXCEPT ![t] = NoReq]
    /\ resp' = [resp EXCEPT ![t] = NoResp]
    /\ UNCHANGED << keyfile_storages, mutex, pre, served, kcall >>

\* parse(p)? fails before the handler is called
ParseFail(t) ==
    /\ pc[t] = "idle"
    /\ served < MaxRequests
    /\ pc' = [pc EXCEPT ![t] = "answered"]
    /\ req' = [req EXCEPT ![t] = [NoReq EXCEPT !.method = "parse", !.well_formed = FALSE]]
    /\ resp' = [resp EXCEPT ![t] = parse_error]
    /\ served' = served + 1
    /\ UNCHANGED << keyfile_storages, mutex, pre, kcall >>

\* a request for a method start has added no closure for
MethodNotFound(t) ==
    /\ pc[t] = "idle"
    /\ served < MaxRequests
    /\ \E m \in (MethodTable \cup {"signer_exportContract"}) \ Registered :
         req' = [req EXCEPT ![t] = [NoReq EXCEPT !.method = m]]
    /\ pc' = [pc EXCEPT ![t] = "answered"]
    /\ resp' = [resp EXCEPT ![t] = method_not_found]
    /\ served' = served + 1
    /\ UNCHANGED << keyfile_storages, mutex, pre, kcall >>

OpenrpcDiscover(t) ==
    /\ pc[t] = "idle"
    /\ served < MaxRequests
    /\ pc' = [pc EXCEPT ![t] = "answered"]
    /\ req' = [req EXCEPT ![t] = [NoReq EXCEPT !.method = "openrpc_discover"]]
    /\ resp' = [resp EXCEPT ![t] = respond(openrpc_discover)]
    /\ served' = served + 1
    /\ UNCHANGED << keyfile_storages, mutex, pre, kcall >>

(***************************************************************************)
(* One action per handler.                                                 *)
(***************************************************************************)
ListAccounts(t) ==
    /\ pc[t] = "locked"
    /\ \E c \in ChainParams, h \in BOOLEAN :
         \E o \in list_accounts([chain |-> c, show_hidden |-> h], keyfile_storages) :
            Finish(t, [NoReq EXCEPT !.method = "signer_listAccounts", !.chain = c], o)

HideAccount(t) ==
    /\ pc[t] = "locked"
    /\ \E c \in ChainParams, a \in AddressParams :
         \E o \in hide_account([address |-> a], [chain |-> c], keyfile_storages) :
            Finish(t, [NoReq EXCEPT !.method = "signer_hideAccount", !.chain = c,
                                    !.address = a], o)

UnhideAccount(t) ==
    /\ pc[t] = "locked"
    /\ \E c \in ChainParams, a \in AddressParams :
         \E o \in unhide_account([address |-> a], [chain |-> c], keyfile_storages) :
            Finish(t, [NoReq EXCEPT !.method = "signer_unhideAccount", !.chain = c,
                                    !.address = a], o)

ShakeAccount(t) ==
    /\ pc[t] = "locked"
    /\ \E c \in ChainParams, a \in AddressParams, old \in Passphrases,
          new \in Passphrases, rng \in Rngs :
         \E o \in shake_account([address |-> a, old_passphrase |-> old,
                                 new_passphrase |-> new], [chain |-> c],
                                keyfile_storages, rng) :
            Finish(t, [NoReq EXCEPT !.method = "signer_shakeAccount", !.chain = c,
                                    !.address = a, !.passphrase = old,
                                    !.new_passphrase = new], o)

UpdateAccount(t) ==
    /\ pc[t] = "locked"
    /\ \E c \in ChainParams, a \in AddressParams, n \in Names, d \in Descriptions :
         \E o \in update_account([address |-> a, name |-> n, description |-> d],
                                 [chain |-> c], keyfile_storages) :
            Finish(t, [NoReq EXCEPT !.method = "signer_updateAccount", !.chain = c,
                                    !.address = a, !.name = n, !.description = d], o)

ImportAccount(t) ==
    /\ pc[t] = "locked"
    /\ \E c \in ChainParams, raw \in ImportRaws :
         \E o \in import_account(raw, [chain |-> c], keyfile_storages) :
            Finish(t, [NoReq EXCEPT !.method = "signer_importAccount", !.chain = c,
                                    !.well_formed = decode(raw).ok], o)

ExportAccount(t) ==
    /\ pc[t] = "locked"
    /\ \E c \in ChainParams, a \in AddressParams :
         \E o \in export_account([address |-> a], [chain |-> c], keyfile_storages) :
            Finish(t, [NoReq EXCEPT !.method = "signer_exportAccount", !.chain = c,
                                    !.address = a], o)

NewAccount(t) ==
    /\ pc[t] = "locked"
    /\ \E c \in ChainParams, p \in Passphrases, n \in Names, d \in Descriptions,
          rng \in Rngs :
         \E o \in new_account([name |-> n, description |-> d, passphrase |-> p],
                              [chain |-> c], sec_level, keyfile_storages, rng) :
            Finish(t, [NoReq EXCEPT !.method = "signer_newAccount", !.chain = c,
                                    !.passphrase = p, !.name = n, !.description = d], o)

SignTransaction(t) ==
    /\ pc[t] = "locked"
    /\ \E c \in ChainParams, a \in AddressParams, p \in Passphrases, w \in BOOLEAN :
         \E o \in sign_transaction([from |-> a, well_formed |-> w], p, [chain |-> c],
                                   keyfile_storages) :
            Finish(t, [NoReq EXCEPT !.method = "signer_signTransaction", !.chain = c,
                                    !.address = a, !.passphrase = p,
                                    !.well_formed = w], o)

Sign(t) ==
    /\ pc[t] = "locked"
    /\ \E c \in ChainParams, a \in AddressParams, p \in Passphrases :
         \E o \in sign("hello", a, p, [chain |-> c], keyfile_storages) :
            Finish(t, [NoReq EXCEPT !.method = "signer_sign", !.chain = c,
                                    !.address = a, !.passphrase = p], o)

SignTypedData(t) ==
    /\ pc[t] = "locked"
    /\ \E c \in ChainParams, a \in AddressParams, p \in Passphrases, w \in BOOLEAN :
         \E o \in sign_typed_data(a, [well_formed |-> w], p, [chain |-> c],
                                  keyfile_storages) :
            Finish(t, [NoReq EXCEPT !.method = "sign_typed_data", !.chain = c,
                                    !.address = a, !.passphrase = p,
                                    !.well_formed = w], o)

ImportMnemonic(t) ==
    /\ pc[t] = "locked"
    /\ \E c \in ChainParams, m \in Mnemonics, h \in HdPaths, p \in Passphrases,
          n \in Names, d \in Descriptions, rng \in Rngs :
         \E o \in import_mnemonic([mnemonic |-> m, hd_path |-> h, passphrase |-> p,
                                   name |-> n, description |-> d],
                                  [chain |-> c], sec_level, keyfile_storages, rng) :
            Finish(t, [NoReq EXCEPT !.method = "import_mnemonic", !.chain = c,
                                    !.passphrase = p, !.name = n, !.description = d,
                                    !.well_formed = Mnemonic_try_from(m).ok
                                                    /\ HDPath_try_from(h).ok], o)

\* every handler of serves.rs that uses the keyfile storage; sign_typed_data
\* and import_mnemonic are among them although start registers no method
\* for them
Next ==
    \E t \in Threads :
        \/ Lock(t)
        \/ LockPoisoned(t)
        \/ Return(t)
        \/ Deliver(t)
        \/ ParseFail(t)
        \/ MethodNotFound(t)
        \/ OpenrpcDiscover(t)
        \/ ListAccounts(t)
        \/ HideAccount(t)
        \/ UnhideAccount(t)
        \/ ShakeAccount(t)
        \/ UpdateAccount(t)
        \/ ImportAccount(t)
        \/ ExportAccount(t)
        \/ NewAccount(t)
        \/ SignTransaction(t)
        \/ Sign(t)
        \/ SignTypedData(t)
        \/ ImportMnemonic(t)

Spec == Init /\ [][Next]_vars

(***************************************************************************)
(* The keyfile functions on their own: new_custom on every key, passphrase,*)
(* KDF and draw; decrypt_key and decrypt_address on the keyfiles it makes  *)
(* and on keyfiles whose cipher text was altered afterwards.               *)
(***************************************************************************)
KRngs == [uuid : Uuids, salt : Salts, iv : Ivs]

NewCustom ==
    /\ kcall.op = ""
    /\ \E pk \in PrivateKeys, p \in Passphrases, kdf \in Kdfs, rng \in KRngs,
          name \in {None, Some("a")} :
         LET r == new_custom(pk, p, kdf, rng, name, None)
         IN  kcall' = [NoCall EXCEPT !.op = "new_custom", !.pk = pk, !.passphrase = p,
                                     !.ok = r.ok, !.err = r.err,
                                     !.kf = IF r.ok THEN Unwrap(r) ELSE DefaultKeyFile]

AlterCipherText ==
    /\ kcall.op = "new_custom"
    /\ kcall.ok
    /\ \E ct \in Words \ {kcall.kf.crypto.cipher_text} :
         kcall' = [kcall EXCEPT !.op = "altered", !.kf.crypto.cipher_text = ct]

Decrypt ==
    /\ kcall.op \in {"new_custom", "altered"}
    /\ kcall.ok
    /\ \E p \in Passphrases :
         kcall' = [kcall EXCEPT !.op = "decrypt", !.passphrase = p,
                                !.key = decrypt_key(kcall.kf, p),
                                !.address = decrypt_address(kcall.kf, p)]

KeyFileNext ==
    /\ \/ NewCustom
       \/ AlterCipherText
       \/ Decrypt
    /\ UNCHANGED rpc_vars

InitKeyFile ==
    /\ Init
    /\ keyfile_storages = StorageController_new

SpecKeyFile == InitKeyFile /\ [][KeyFileNext]_vars

(***************************************************************************)
(* The storage interface and the controller on their own: every sequence   *)
(* of put, delete, hide, unhide, search_by_address and list_accounts on    *)
(* the partition of one chain, starting from the empty store, and the two  *)
(* lookups of the controller on names it holds and names it does not.      *)
(* kcall.puts remembers the (uuid, address) of every put that succeeded    *)
(* and whose address no delete has named since.                            *)
(***************************************************************************)
StoreChain == "eth"
StoreAddresses == {AddressOf(1), AddressOf(2)}
SearchAddresses == StoreAddresses \cup {AddressOf(3)}
LookupChains == CHAIN_NAMES \cup {"mainnet", "bogus"}

\* keyfiles as the handlers hand them to put: made by new_custom, some with
\* the visible field absent, some hidden
StoreKeyFiles ==
    {[Unwrap(new_custom(pk, "p", "scrypt", [uuid |-> u, salt |-> 0, iv |-> 1],
                        None, None)) EXCEPT !.visible = v]
       : u \in Uuids, pk \in {1, 2}, v \in {None, Some(FALSE)}}

Store == keyfile_storages[StoreChain]

StoreCall(op) == [NoCall EXCEPT !.op = op, !.chain = StoreChain, !.puts = kcall.puts]

Put ==
    \E kf \in StoreKeyFiles : \E r \in put_results(Store, kf) :
       /\ keyfile_storages' =
            [keyfile_storages EXCEPT ![StoreChain] = IF r.ok THEN Unwrap(r) ELSE @]
       /\ kcall' = [StoreCall("put") EXCEPT
                     !.kf = kf, !.ok = r.ok, !.err = r.err,
                     !.puts = IF r.ok THEN @ \cup {<< kf.uuid, kf.address >>} ELSE @]

Delete ==
    \E addr \in SearchAddresses : \E r \in delete(Store, addr) :
       /\ keyfile_storages' = [keyfile_storages EXCEPT ![StoreChain] = r.ks]
       /\ kcall' = [StoreCall("delete") EXCEPT
                     !.addr = addr, !.ok = r.ok,
                     !.puts = {p \in @ : p[2] # addr}]

SetVisible(op, addr, results) ==
    \E r \in results :
       /\ keyfile_storages' =
            [keyfile_storages EXCEPT ![StoreChain] = IF r.ok THEN Unwrap(r) ELSE @]
       /\ kcall' = [StoreCall(op) EXCEPT !.addr = addr, !.ok = r.ok, !.err = r.err]

Hide == \E addr \in SearchAddresses : SetVisible("hide", addr, hide(Store, addr))

Unhide == \E addr \in SearchAddresses : SetVisible("unhide", addr, unhide(Store, addr))

SearchByAddress ==
    \E addr \in SearchAddresses : \E r \in search_by_address(Store, addr) :
       /\ kcall' = [StoreCall("search_by_address") EXCEPT
                     !.addr = addr, !.ok = r.ok, !.err = r.err,
                     !.found = IF r.ok THEN r ELSE Err(r.err)]
       /\ UNCHANGED keyfile_storages

StorageListAccounts ==
    \E show_hidden \in BOOLEAN :
       /\ kcall' = [StoreCall("list_accounts") EXCEPT
                     !.show_hidden = show_hidden, !.ok = TRUE,
                     !.accounts = storage_list_accounts(Store, show_hidden)]
       /\ UNCHANGED keyfile_storages

ControllerCall(op, r, chain) ==
    /\ kcall' = [StoreCall(op) EXCEPT !.chain = chain, !.ok = r.ok, !.err = r.err]
    /\ UNCHANGED keyfile_storages

GetKeystore ==
    \E chain \in LookupChains :
       ControllerCall("get_keystore", get_keystore(keyfile_storages, chain), chain)

GetContracts ==
    \E chain \in LookupChains :
       ControllerCall("get_contracts", get_contracts(contract_storages, chain), chain)

StorageNext ==
    /\ \/ Put
       \/ Delete
       \/ Hide
       \/ Unhide
       \/ SearchByAddress
       \/ StorageListAccounts
       \/ GetKeystore
       \/ GetContracts
    /\ pre' = keyfile_storages
    /\ UNCHANGED << mutex, pc, req, resp, served >>

SpecStorage == InitKeyFile /\ [][StorageNext]_vars

(***************************************************************************)
(* The HD path functions on their own (src/mnemonic/hd_path.rs): every     *)
(* string of up to MaxPathLen characters over PathChars, the path of the   *)
(* unit test, paths with indices at the edges of 31, 32 and 64 bits, and   *)
(* paths of 255 and 256 segments.                                          *)
(***************************************************************************)
PathChars == {"m", "/", "'", "+", "1", "x"}

BoundaryPaths ==
    {<< "m", "/", "4", "4", "'", "/", "6", "0", "'", "/", "1", "6", "0", "7", "2", "0", "'", "/", "0", "'" >>,
     << "m", "/", "0", "'" >>,
     << "m", "/", "2", "1", "4", "7", "4", "8", "3", "6", "4", "7" >>,
     << "m", "/", "2", "1", "4", "7", "4", "8", "3", "6", "4", "8" >>,
     << "m", "/", "2", "1", "4", "7", "4", "8", "3", "6", "4", "7", "'" >>,
     << "m", "/", "2", "1", "4", "7", "4", "8", "3", "6", "4", "8", "'" >>,
     << "m", "/", "4", "2", "9", "4", "9", "6", "7", "2", "9", "5" >>,
     << "m", "/", "4", "2", "9", "4", "9", "6", "7", "2", "9", "6" >>,
     << "m", "/", "1", "8", "4", "4", "6", "7", "4", "4", "0", "7", "3", "7", "0", "9", "5", "5", "1", "6", "1", "5", "'" >>,
     << "m", "/", "1", "8", "4", "4", "6", "7", "4", "4", "0", "7", "3", "7", "0", "9", "5", "5", "1", "6", "1", "6" >>}

\* "m" followed by n segments "/0"
LongPath(n) == << "m" >> \o [i \in 1..(2 * n) |-> IF i % 2 = 1 THEN "/" ELSE "0"]

InputPaths ==
    UNION {[1..k -> PathChars] : k \in 0..MaxPathLen}
       \cup BoundaryPaths \cup {LongPath(255), LongPath(256)}

Builds == {"debug", "release"}

TryFrom ==
    \E path \in InputPaths :
       kcall' = [NoCall EXCEPT !.op = "try_from", !.path = path,
                               !.hd = HDPath_try_from(path)]

PathToArr ==
    \E path \in InputPaths, build \in Builds :
       kcall' = [NoCall EXCEPT !.op = "path_to_arr", !.path = path, !.build = build,
                               !.arr = path_to_arr(path, build)]

ToPrefixedPath ==
    \E path \in InputPaths, build \in Builds :
       kcall' = [NoCall EXCEPT !.op = "to_prefixed_path", !.path = path,
                               !.build = build,
                               !.arr = to_prefixed_path(path, build)]

HDPathNext ==
    /\ kcall.op = ""
    /\ \/ TryFrom
       \/ PathToArr
       \/ ToPrefixedPath
    /\ UNCHANGED rpc_vars

SpecHDPath == InitKeyFile /\ [][HDPathNext]_vars

(***************************************************************************)
(* The typed-data functions on their own (src/util/typed.rs): every type   *)
(* map that defines A, Ab and B with up to MaxFields members each, the     *)
(* member kinds drawn from the defined names, an array of one, an          *)
(* undefined name and an atomic type.  The maps of the unit tests have     *)
(* these shapes: Mail -> Person, Group -> Person[], Person -> Person.      *)
(***************************************************************************)
TypeA == << "A" >>
TypeAb == << "A", "b" >>
TypeB == << "B" >>
TypeD == << "D" >>

DefinedNames == {TypeA, TypeAb, TypeB}
MemberKinds == {TypeA, TypeAb \o << "[", "]" >>, TypeB, TypeD, KindString}
PrimaryTypes == DefinedNames \cup {TypeD, TypeA \o << "[", "]" >>}

RECURSIVE FieldName(_)
FieldName(i) == IF i = 0 THEN << >> ELSE << "x" >> \o FieldName(i - 1)
Members == UNION {{[i \in 1..n |-> [name |-> FieldName(i), kind |-> k[i]]] :
                      k \in [1..n -> MemberKinds]} : n \in 0..MaxFields}
TypeMaps == [DefinedNames -> Members]

EncodeType ==
    \E types \in TypeMaps, primary_type \in PrimaryTypes :
       kcall' = [NoCall EXCEPT !.op = "encode_type", !.types = types,
                               !.primary = primary_type,
                               !.text = encode_type(primary_type, types)]

\* one struct type, and the kinds a member can have: atomic, struct, and
\* arrays of them
StructTypes == TypeA :> << [name |-> << "x" >>, kind |-> KindString] >>
ElementKinds ==
    {KindBool, KindString, KindBytes, KindBytes \o << "3", "2" >>, KindAddress,
     KindInt, KindInt \o << "8" >>, KindInt \o << "2", "5", "6" >>,
     KindUint, KindUint \o << "2", "4" >>, KindUint \o << "2", "5", "6" >>, TypeA}
FieldKinds ==
    ElementKinds \cup {k \o << "[", "]" >> : k \in ElementKinds}
       \cup {KindUint \o << "2", "5", "6", "[", "]", "[", "]" >>}

AddressText == << "0", "x" >> \o [i \in 1..40 |-> "c"]
Scalars ==
    {JNull, JBool(TRUE), JStr(<< "a", "b" >>), JStr(AddressText),
     JObj(<< << "x" >> >>, << JStr(<< "a", "b" >>) >>)}
       \cup {JNum(n) : n \in {-1, 0, 1, 10, 127}}
Arrays == {JArr(items) : items \in UNION {[1..n -> Scalars] : n \in 0..MaxItems}}
FieldValues ==
    {None} \cup {Some(v) : v \in Scalars \cup Arrays
                              \cup {JArr(<< JArr(<< JNum(1) >>), JArr(<< >>) >>)}}

EncodeField ==
    \E kind \in FieldKinds, value \in FieldValues :
       kcall' = [NoCall EXCEPT !.op = "encode_field", !.types = StructTypes,
                               !.kind = kind, !.value = value,
                               !.token = encode_field(<< "x" >>, kind, value, StructTypes)]

TypedNext ==
    /\ kcall.op = ""
    /\ \/ EncodeType
       \/ EncodeField
    /\ UNCHANGED rpc_vars

SpecTyped == InitKeyFile /\ [][TypedNext]_vars

(***************************************************************************)
(* find_type_dependencies step by step: kcall.stack holds one frame per    *)
(* active call, the innermost last.  A frame is at "entry" before the      *)
(* checks of lines 240-247, at "loop" between two members of the for loop, *)
(* at "wait" while the call made for a member runs, and at "return" with   *)
(* its results ready.                                                      *)
(***************************************************************************)
FindKinds == {TypeA, TypeAb \o << "[", "]" >>, TypeD, KindString}
FindMembers == UNION {{[i \in 1..n |-> [name |-> FieldName(i), kind |-> k[i]]] :
                          k \in [1..n -> FindKinds]} : n \in 0..MaxFields}
FindMaps == [{TypeA, TypeAb} -> FindMembers]
InitialResults == {<< >>, << TypeAb >>, << TypeD >>}

Frame(arg, results) == [arg |-> arg, results |-> results, fields |-> << >>, at |-> "entry"]
Top == kcall.stack[Len(kcall.stack)]
SetTop(f) == [kcall EXCEPT !.stack[Len(kcall.stack)] = f]

FindCall ==
    /\ kcall.op = ""
    /\ \E types \in FindMaps, primary_type \in {TypeA, TypeAb \o << "[", "]" >>, TypeD},
          results \in InitialResults :
          kcall' = [NoCall EXCEPT !.op = "find_type_dependencies", !.types = types,
                                  !.primary = primary_type, !.initial = results,
                                  !.stack = << Frame(primary_type, results) >>]

\* lines 240-249
FindEnter ==
    /\ kcall.stack # << >> /\ Top.at = "entry"
    /\ LET name == TYPE_NAME_MATCHER(Top.arg)
       IN  kcall' = IF contains(Top.results, name) \/ name \notin DOMAIN kcall.types
                    THEN SetTop([Top EXCEPT !.at = "return"])
                    ELSE SetTop([Top EXCEPT !.at = "loop",
                                            !.results = Append(@, name),
                                            !.fields = kcall.types[name]])

\* line 251 with a member left, and the call of line 252
FindRecurse ==
    /\ kcall.stack # << >> /\ Top.at = "loop" /\ Top.fields # << >>
    /\ kcall' = [SetTop([Top EXCEPT !.at = "wait"]) EXCEPT
                    !.stack = Append(@, Frame(Head(Top.fields).kind, Top.results))]

\* line 251 with no member left, line 259
FindLoopEnd ==
    /\ kcall.stack # << >> /\ Top.at = "loop" /\ Top.fields = << >>
    /\ kcall' = SetTop([Top EXCEPT !.at = "return"])

\* the return into the loop of the caller, lines 252-256
FindReturn ==
    /\ Len(kcall.stack) > 1 /\ Top.at = "return"
    /\ LET caller == kcall.stack[Len(kcall.stack) - 1]
       IN  kcall' = [kcall EXCEPT !.stack =
                        Append(SubSeq(@, 1, Len(@) - 2),
                               [caller EXCEPT !.at = "loop",
                                              !.results = push_new(@, Top.results),
                                              !.fields = Tail(@)])]

\* the return of the outermost call
FindDone ==
    /\ Len(kcall.stack) = 1 /\ Top.at = "return"
    /\ kcall' = [kcall EXCEPT !.stack = << >>, !.done = TRUE, !.results = Top.results]

FindNext ==
    /\ \/ FindCall
       \/ FindEnter
       \/ FindRecurse
       \/ FindLoopEnd
       \/ FindReturn
       \/ FindDone
    /\ UNCHANGED rpc_vars

SpecFind == InitKeyFile /\ [][FindNext]_vars /\ WF_vars(FindNext)

(***************************************************************************)
(* Properties.                                                             *)
(***************************************************************************)
Holders == {t \in Threads : pc[t] \in {"locked", "ran"}}

Ran(t, method) == pc[t] = "ran" /\ req[t].method = method
Succeeded(t, method) == Ran(t, method) /\ resp[t].kind = "result"

\* the keyfiles a partition holds for the address a request names
ForAddress(ctrl, chain, address) ==
    {k \in ctrl[chain] : k.address = Unwrap(Address_from_str(address))}

\* C1: at most one handler holds the StorageController at any moment, the
\* mutex is locked exactly while one does, and a handler that uses storage
\* has its result only while it holds the guard.
C1_OneHolder ==
    /\ Cardinality(Holders) <= 1
    /\ (Holders # {}) <=> mutex.locked
    /\ \A t \in Threads :
         pc[t] = "answered" =>
              \/ req[t].method \in {"lock", "parse", "openrpc_discover"}
              \/ resp[t].kind = "method_not_found"

\* a handler has changed storage under the lock while the other thread is
\* free to take a request and cannot start it
C1_Witness ==
    \E t \in Threads, u \in Threads :
        /\ t # u
        /\ Succeeded(t, "signer_shakeAccount")
        /\ keyfile_storages # pre
        /\ mutex.locked
        /\ pc[u] = "idle"
        /\ served < MaxRequests

\* C2: every request ends with a result or a JSON-RPC error for the caller;
\* no handler panics.
C2_NoPanic == \A t \in Threads : resp[t].kind # "panic"

\* C3: a request that has finished never keeps a later request from taking
\* the mutex and being served.
C3_LaterRequestsServed ==
    \A t \in Threads : ~(pc[t] = "answered" /\ req[t].method = "lock")

\* C4: after a successful signer_shakeAccount every keyfile stored for the
\* address has the uuid, KDF kind, address, name and description of a
\* keyfile that was stored for the address before the call.
C4_ShakeKeepsIdentity ==
    \A t \in Threads :
        Succeeded(t, "signer_shakeAccount") =>
            \A n \in ForAddress(keyfile_storages, req[t].chain, req[t].address) :
                \E k \in ForAddress(pre, req[t].chain, req[t].address) :
                    /\ n.uuid = k.uuid
                    /\ n.crypto.kdf = k.crypto.kdf
                    /\ n.address = k.address
                    /\ n.name = k.name
                    /\ n.description = k.description

\* the request reached decrypt_key with a passphrase that is not empty and
\* that opens no keyfile stored for the address
WrongPassphrase(t) ==
    /\ req[t].chain \in CHAIN_NAMES
    /\ Address_from_str(req[t].address).ok
    /\ req[t].well_formed
    /\ req[t].passphrase # ""
    /\ ForAddress(pre, req[t].chain, req[t].address) # {}
    /\ \A k \in ForAddress(pre, req[t].chain, req[t].address) :
         ~decrypt_key(k, req[t].passphrase).ok

UnlockingMethods ==
    {"signer_signTransaction", "signer_sign", "sign_typed_data", "signer_shakeAccount"}

\* C5: a wrong passphrase is reported by every operation that unlocks a
\* keyfile as the same "Invalid passphrase" error.
C5_WrongPassphraseOpaque ==
    \A t \in Threads :
        (pc[t] = "ran" /\ req[t].method \in UnlockingMethods /\ WrongPassphrase(t)) =>
            /\ resp[t].kind = "invalid_params"
            /\ resp[t].msg = "Invalid data format: Invalid passphrase"

\* C6: a backend IO failure is answered as internal_error, every other
\* failure as invalid_params with a message.
C6_ErrorKinds ==
    \A t \in Threads :
        (pc[t] \in {"ran", "answered"} /\ resp[t].kind \notin {"result", "panic"}) =>
            IF resp[t].msg = to_string(From_storage("IO error"))
            THEN resp[t].kind = "internal_error"
            ELSE resp[t].kind = "invalid_params" /\ resp[t].msg # ""

\* C7: new_custom on a secp256k1 private key gives a keyfile that decrypts
\* under the same passphrase to that key and carries the key's address.
C7_NewCustomRoundTrip ==
    (kcall.op = "new_custom" /\ kcall.pk # 0) =>
        /\ kcall.ok
        /\ decrypt_key(kcall.kf, kcall.passphrase).ok
        /\ Unwrap(decrypt_key(kcall.kf, kcall.passphrase)) = kcall.pk
        /\ to_address(kcall.pk).ok
        /\ kcall.kf.address = Unwrap(to_address(kcall.pk))

C7_Witness ==
    /\ kcall.op = "new_custom"
    /\ kcall.ok
    /\ kcall.pk = 3
    /\ kcall.passphrase = "q"
    /\ kcall.kf.crypto.kdf = "pbkdf2"
    /\ kcall.kf.crypto.salt = 1
    /\ kcall.kf.crypto.cipher_text # kcall.pk

\* the derived key of the passphrase does not reproduce the stored mac
MacMismatch(kf, passphrase) ==
    keccak256(derive(kf.crypto.kdf, kf.crypto.salt, passphrase), kf.crypto.cipher_text)
        # kf.crypto.mac

\* C8: when the mac is not reproduced decrypt_key fails with
\* FailedMacValidation without a cipher operation, and so does decrypt_address.
C8_MacBeforeCipher ==
    (kcall.op = "decrypt" /\ MacMismatch(kcall.kf, kcall.passphrase)) =>
        /\ ~kcall.key.ok
        /\ kcall.key.err = "FailedMacValidation"
        /\ kcall.key.cipher_ops = 0
        /\ ~kcall.address.ok
        /\ kcall.address.err = "FailedMacValidation"

C8_Witness ==
    /\ kcall.op = "decrypt"
    /\ kcall.pk # 0
    /\ kcall.passphrase = "p"
    /\ MacMismatch(kcall.kf, kcall.passphrase)
    /\ ~MacMismatch(kcall.kf, "q")
    /\ ~kcall.key.ok

\* C9: a successful signer_updateAccount leaves every other chain and every
\* other keyfile of the partition as they were, and the keyfile it wrote
\* keeps uuid, address, visible and the crypto block.
C9_UpdateFrame ==
    \A t \in Threads :
        Succeeded(t, "signer_updateAccount") =>
            /\ \A d \in CHAIN_NAMES \ {req[t].chain} : keyfile_storages[d] = pre[d]
            /\ \E k \in ForAddress(pre, req[t].chain, req[t].address) :
                 \E n \in keyfile_storages[req[t].chain] :
                    /\ n.uuid = k.uuid
                    /\ n.address = k.address
                    /\ n.crypto = k.crypto
                    /\ n.visible = k.visible
                    /\ keyfile_storages[req[t].chain] \ {n} = pre[req[t].chain] \ {k}

C9_Witness ==
    \E t \in Threads :
        /\ Succeeded(t, "signer_updateAccount")
        /\ Cardinality(pre[req[t].chain]) = 2
        /\ keyfile_storages # pre
        /\ req[t].name = "a"
        /\ req[t].description = ""

\* C10: no two keyfiles of a partition have the same uuid.
C10_UuidUnique ==
    \A c \in CHAIN_NAMES :
        \A k1 \in keyfile_storages[c], k2 \in keyfile_storages[c] :
            k1.uuid = k2.uuid => k1 = k2

\* an import has replaced a keyfile of another address that had its uuid
C10_Witness ==
    \E t \in Threads :
        /\ Succeeded(t, "signer_importAccount")
        /\ \E k \in pre[req[t].chain], n \in keyfile_storages[req[t].chain] :
             /\ k.uuid = n.uuid
             /\ k.address # n.address
             /\ k \notin keyfile_storages[req[t].chain]

\* the keyfiles of the partition that carry the address of the last call
Held == {k \in Store : k.address = kcall.addr}

\* C12 (as stated): when search_by_address has answered, every keyfile that
\* was put with the address searched, and whose address no delete has named
\* since, is the one found (same uuid); an address no keyfile carries is
\* answered with NotFound.
C12_PutThenFound ==
    kcall.op = "search_by_address" =>
       /\ \A p \in kcall.puts :
            p[2] = kcall.addr =>
               kcall.found.ok /\ Unwrap(kcall.found).uuid = p[1]
       /\ Held = {} => ~kcall.found.ok /\ kcall.err = "NotFound"

\* C12 (amended): search_by_address succeeds exactly when the partition
\* holds a keyfile with the address and then returns one of the keyfiles
\* held for it, so the uuid of a put keyfile when no other keyfile held
\* carries the address; otherwise it fails with NotFound.  Right after a
\* put has succeeded, a search of the keyfile's address succeeds.
C12_SearchFindsHeld ==
    /\ kcall.op = "search_by_address" =>
          /\ kcall.found.ok <=> Held # {}
          /\ kcall.found.ok => Unwrap(kcall.found) \in Held
          /\ ~kcall.found.ok => kcall.err = "NotFound"
          /\ \A p \in kcall.puts :
               Held # {} /\ (\A k \in Held : k.uuid = p[1]) =>
                  Unwrap(kcall.found).uuid = p[1]
    /\ kcall.op = "put" /\ kcall.ok =>
          /\ kcall.kf \in Store
          /\ \A r \in search_by_address(Store, kcall.kf.address) :
               /\ r.ok
               /\ Unwrap(r).address = kcall.kf.address
               /\ (\A k \in Store : k.address = kcall.kf.address => k = kcall.kf)
                     => Unwrap(r).uuid = kcall.kf.uuid

\* a search that found one of two keyfiles put with the same address
C12_Witness ==
    /\ kcall.op = "search_by_address"
    /\ kcall.found.ok
    /\ Cardinality(Held) = 2
    /\ Cardinality({p \in kcall.puts : p[2] = kcall.addr}) = 2

\* C13: list_accounts(show_hidden = false) returns exactly the accounts that
\* are not hidden (a keyfile without a visible field counts as visible, a
\* keyfile is hidden once hide has succeeded on it and until unhide does),
\* list_accounts(true) returns every account with is_hidden telling which
\* are hidden, and both are in ascending uuid order.
C13_ListAccounts ==
    LET Shown == {k \in Store : kcall.show_hidden \/ k.visible # Some(FALSE)}
        ShownAt(i) ==
            CHOOSE k \in Shown : Cardinality({j \in Shown : j.uuid < k.uuid}) = i - 1
    IN  /\ kcall.op = "list_accounts" =>
              /\ Len(kcall.accounts) = Cardinality(Shown)
              /\ \A i \in 1..Len(kcall.accounts) :
                   /\ kcall.accounts[i].address = ShownAt(i).address
                   /\ kcall.accounts[i].name = ShownAt(i).name
                   /\ kcall.accounts[i].description = ShownAt(i).description
                   /\ kcall.accounts[i].is_hidden = (ShownAt(i).visible = Some(FALSE))
                   /\ ~kcall.show_hidden => ~kcall.accounts[i].is_hidden
        /\ kcall.op = "hide" /\ kcall.ok => \E k \in Held : k.visible = Some(FALSE)
        /\ kcall.op = "unhide" /\ kcall.ok => \E k \in Held : k.visible = Some(TRUE)

\* a listing without the hidden accounts of a partition that holds a hidden
\* keyfile with the smaller uuid and a visible one with the larger
C13_Witness ==
    /\ kcall.op = "list_accounts"
    /\ ~kcall.show_hidden
    /\ Len(kcall.accounts) = 1
    /\ \E h, v \in Store : h.uuid < v.uuid /\ h.visible = Some(FALSE) /\ v.visible = None

\* C14: every method of the external interface is registered by start, so
\* no request that names one of them, signer_signTypedData and
\* signer_importMnemonic in particular, is answered "Method not found".
C14_TableRegistered ==
    \A t \in Threads :
       req[t].method \in MethodTable => resp[t].kind # "method_not_found"

\* C15: the controller holds a keyfile storage and a contract storage for
\* exactly the nine chain names; get_keystore(c) and get_contracts(c)
\* succeed exactly for those names and otherwise fail with
\* StorageError("No storage for: <c>"); neither call changes the controller.
C15_NineChains ==
    /\ Cardinality(DOMAIN keyfile_storages) = 9
    /\ DOMAIN contract_storages = DOMAIN keyfile_storages
    /\ {"eth", "morden", "etc"} \subseteq DOMAIN keyfile_storages
    /\ kcall.op \in {"get_keystore", "get_contracts"} =>
          /\ kcall.ok <=> kcall.chain \in DOMAIN keyfile_storages
          /\ ~kcall.ok =>
                From_storage(kcall.err) = StorageError("No storage for: " \o kcall.chain)
          /\ keyfile_storages = pre

\* get_keystore was refused for the default chain name of the command line
\* while the partition of eth holds a keyfile
C15_Witness ==
    /\ kcall.op = "get_keystore"
    /\ kcall.chain = "mainnet"
    /\ ~kcall.ok
    /\ Store # {}

\* C16: when signer_newAccount with a non-empty passphrase P has returned
\* the address A of a key the partition held no keyfile for,
\* signer_exportAccount for A on the same chain succeeds, and the keyfile it
\* yields decrypts under P to a key whose address is A.
C16_NewThenExport ==
    \A t \in Threads :
       (/\ Succeeded(t, "signer_newAccount")
        /\ ForAddress(pre, req[t].chain, resp[t].value.string[1]) = {}) =>
          LET A == resp[t].value.string[1]
              P == req[t].passphrase
          IN  /\ P # ""
              /\ \A o \in export_account([address |-> A], [chain |-> req[t].chain],
                                         keyfile_storages) :
                   /\ o.out = "ok"
                   /\ decode(o.val.keyfile[1]).ok
                   /\ LET key == decrypt_key(Unwrap(decode(o.val.keyfile[1])), P)
                      IN  /\ key.ok
                          /\ Address_to_string(Unwrap(to_address(Unwrap(key)))) = A

\* signer_newAccount under "p" has added a second account to a partition
\* that held one under another passphrase
C16_Witness ==
    \E t \in Threads :
       /\ Succeeded(t, "signer_newAccount")
       /\ req[t].passphrase = "p"
       /\ ForAddress(pre, req[t].chain, resp[t].value.string[1]) = {}
       /\ pre[req[t].chain] # {}
       /\ Cardinality(keyfile_storages[req[t].chain]) = 2

\* C17: no operation that encrypts a key stores a keyfile encrypted under
\* the empty passphrase: signer_newAccount and import_mnemonic with an empty
\* passphrase, and signer_shakeAccount with an empty new passphrase, are
\* rejected (with InvalidDataFormat "Empty passphrase" on a chain the
\* controller holds) and leave every partition as it was.
C17_NoEmptyPassphrase ==
    \A t \in Threads :
       /\ ((Ran(t, "signer_newAccount") \/ Ran(t, "import_mnemonic"))
             /\ req[t].passphrase = "") =>
             /\ resp[t].kind = "invalid_params"
             /\ keyfile_storages = pre
             /\ req[t].chain \in CHAIN_NAMES =>
                   resp[t].msg = to_string(InvalidDataFormat("Empty passphrase"))
       /\ (Ran(t, "signer_shakeAccount") /\ req[t].new_passphrase = "") =>
             /\ resp[t].kind = "invalid_params"
             /\ keyfile_storages = pre

\* C19: after a successful signer_shakeAccount with different old and new
\* passphrases on an address the partition held one keyfile for, the
\* partition holds exactly one keyfile for the address, it decrypts under
\* the new passphrase to the private key the old keyfile held, and no
\* keyfile stored for the address decrypts under the old passphrase.
C19_ShakeReplaces ==
    \A t \in Threads :
       LET before == ForAddress(pre, req[t].chain, req[t].address)
           now == ForAddress(keyfile_storages, req[t].chain, req[t].address)
       IN  (/\ Succeeded(t, "signer_shakeAccount")
            /\ req[t].passphrase # req[t].new_passphrase
            /\ Cardinality(before) = 1) =>
              /\ Cardinality(now) = 1
              /\ \A n \in now :
                   /\ decrypt_key(n, req[t].new_passphrase).ok
                   /\ \A k \in before :
                        Unwrap(decrypt_key(n, req[t].new_passphrase))
                           = Unwrap(decrypt_key(k, req[t].passphrase))
                   /\ ~decrypt_key(n, req[t].passphrase).ok

\* C20: a state-changing operation (new, import, import mnemonic, shake,
\* update, hide, unhide) that returns an error leaves the keyfile storage
\* of every chain exactly as it was before the call.
C20_ErrorLeavesStorage ==
    \A t \in Threads :
       (/\ pc[t] = "ran"
        /\ req[t].method \in {"signer_newAccount", "signer_importAccount",
                               "import_mnemonic", "signer_shakeAccount",
                               "signer_updateAccount", "signer_hideAccount",
                               "signer_unhideAccount"}
        /\ resp[t].kind = "invalid_params") =>
          keyfile_storages = pre

\* signer_shakeAccount got as far as put on a partition with two keyfiles
\* and the backend failed
C20_Witness ==
    \E t \in Threads :
       /\ Ran(t, "signer_shakeAccount")
       /\ resp[t].kind = "invalid_params"
       /\ resp[t].msg = to_string(StorageError("IO error"))
       /\ Cardinality(pre[req[t].chain]) = 2

\* C21: sign_transaction, sign, sign_typed_data, export_account and
\* list_accounts never modify storage: whatever the input and the outcome
\* (a result, an error or a panic), the keyfiles of every partition and all
\* their fields are the same after the handler has run as before.
C21_ReadOnlyHandlers ==
    \A t \in Threads :
       (/\ pc[t] = "ran"
        /\ req[t].method \in {"signer_signTransaction", "signer_sign",
                               "sign_typed_data", "signer_exportAccount",
                               "signer_listAccounts"}) =>
          keyfile_storages = pre

\* signer_exportAccount has returned a keyfile of a partition holding two
C21_Witness ==
    \E t \in Threads :
       /\ Succeeded(t, "signer_exportAccount")
       /\ Cardinality(keyfile_storages[req[t].chain]) = 2
       /\ resp[t].value.keyfile # << >>

C23_UpdateKeepsOnEmpty ==
    \A t \in Threads :
       Succeeded(t, "signer_updateAccount") =>
          \E k \in ForAddress(pre, req[t].chain, req[t].address) :
             \E n \in keyfile_storages[req[t].chain] :
                /\ n.uuid = k.uuid
                /\ n.name = IF req[t].name = "" THEN k.name ELSE Some(req[t].name)
                /\ n.description = IF req[t].description = "" THEN k.description
                                   ELSE Some(req[t].description)
                /\ (k.name \notin {None, Some("")}) => (n.name \notin {None, Some("")})
                /\ (k.description \notin {None, Some("")}) =>
                      (n.description \notin {None, Some("")})

\* an update with empty name and empty description on an account that has
\* both set
C23_Witness ==
    \E t \in Threads :
       /\ Succeeded(t, "signer_updateAccount")
       /\ req[t].name = ""
       /\ req[t].description = ""
       /\ \E k \in ForAddress(keyfile_storages, req[t].chain, req[t].address) :
            k.name = Some("a") /\ k.description = Some("d")

\* the index part of a segment, and whether it is written in decimal digits
IndexPart(seg) == IF ends_with_apostrophe(seg) THEN pop(seg) ELSE seg
Decimal(s) == s # << >> /\ \A i \in 1..Len(s) : IsDigit(s[i])
Below2p31(s) == parse_digits(s, Zero(4), 4).ok /\ Unwrap(parse_digits(s, Zero(4), 4))[1] < 128
Segments(p) == split(SubSeq(p, 3, Len(p)))

\* C24: HDPath::try_from(p) succeeds exactly when p is "m/" followed by one
\* or more '/'-separated segments, each a decimal index below 2^31 with an
\* optional apostrophe; the result has one child number per segment, in
\* order, hardened exactly when the segment has the apostrophe; a path
\* without "m/", with an empty segment or with a segment that is not a
\* number fails with a MnemonicError.
C24_HDPathGrammar ==
    kcall.op = "try_from" =>
       LET p == kcall.path
           segs == Segments(p)
           prefixed == HD_PATH_RE_is_match(p)
       IN  /\ kcall.hd.ok <=>
                (prefixed /\ \A i \in 1..Len(segs) :
                                Decimal(IndexPart(segs[i])) /\ Below2p31(IndexPart(segs[i])))
           /\ kcall.hd.ok =>
                 /\ Len(Unwrap(kcall.hd)) = Len(segs)
                 /\ \A i \in 1..Len(segs) :
                      /\ Unwrap(kcall.hd)[i].hardened = ends_with_apostrophe(segs[i])
                      /\ Ok(Unwrap(kcall.hd)[i].index)
                            = parse_digits(IndexPart(segs[i]), Zero(4), 4)
           /\ (~prefixed \/ \E i \in 1..Len(segs) : ~Decimal(IndexPart(segs[i]))) =>
                 /\ ~kcall.hd.ok
                 /\ kcall.hd.err \in
                      {"Mnemonic generation error: Invalid HD path format"} \cup
                      {"Mnemonic generation error: Invalid HD path child index: " \o e :
                         e \in {"cannot parse integer from empty string",
                                "invalid digit found in string",
                                "number too large to fit in target type"}}

\* C25: for a path of k segments that to_prefixed_path accepts the output
\* has 1 + 4 * k bytes, the first is k, and the i-th group of four is the
\* big-endian u32 of the index of segment i (stated for indices below 2^31)
\* with 0x80000000 added when the segment is hardened.
C25_PrefixedPathBytes ==
    (kcall.op = "to_prefixed_path" /\ kcall.arr.out = "ok") =>
       LET segs == Segments(kcall.path)
           k == Len(segs)
           index(i) == str_parse(IndexPart(segs[i]), 4)
       IN  /\ Len(kcall.arr.bytes) = 1 + 4 * k
           /\ kcall.arr.bytes[1] = k
           /\ \A i \in 1..k :
                (index(i).ok /\ Unwrap(index(i))[1] < 128) =>
                   \A j \in 1..4 :
                      kcall.arr.bytes[4 * i - 3 + j]
                        = Unwrap(index(i))[j]
                            + (IF j = 1 /\ ends_with_apostrophe(segs[i]) THEN 128 ELSE 0)

\* C26: path_to_arr accepts a path only if HDPath::try_from accepts it, and
\* then the i-th group of four bytes is the u32 of the i-th child number
\* (the index, with the top bit set when hardened), so that the bytes
\* determine the sequence of child numbers.
C26_PathToArrAgrees ==
    (kcall.op = "path_to_arr" /\ kcall.arr.out = "ok") =>
       LET hd == HDPath_try_from(kcall.path)
       IN  /\ hd.ok
           /\ Len(kcall.arr.bytes) = 4 * Len(Unwrap(hd))
           /\ \A i \in 1..Len(Unwrap(hd)) : \A j \in 1..4 :
                kcall.arr.bytes[4 * i - 4 + j]
                  = Unwrap(hd)[i].index[j]
                      + (IF j = 1 /\ Unwrap(hd)[i].hardened THEN 128 ELSE 0)

\* the custom types a type refers to directly: the kinds of its members
\* with the array suffixes stripped, when the map defines them
Referenced(types, t) ==
    {n \in DOMAIN types :
        \E i \in 1..Len(types[t]) :
           LET kind == types[t][i].kind
           IN  \/ kind = n
               \/ /\ Len(kind) > Len(n)
                  /\ SubSeq(kind, 1, Len(n)) = n
                  /\ kind[Len(n) + 1] = "["}

RECURSIVE ReachableFrom(_, _)
ReachableFrom(types, done) ==
    LET more == done \cup UNION {Referenced(types, t) : t \in done}
    IN  IF more = done THEN done ELSE ReachableFrom(types, more)

\* "Name(kind1 name1,kind2 name2,...)"
RECURSIVE MemberList(_)
MemberList(ms) ==
    IF ms = << >> THEN << >>
    ELSE IF Len(ms) = 1 THEN ms[1].kind \o << " " >> \o ms[1].name
    ELSE ms[1].kind \o << " " >> \o ms[1].name \o << "," >> \o MemberList(Tail(ms))
TypeText(types, t) == t \o << "(" >> \o MemberList(types[t]) \o << ")" >>

\* the texts of a set of names, in ascending order of the names
RECURSIVE Ascending(_, _)
Ascending(types, names) ==
    IF names = {} THEN << >>
    ELSE LET least == CHOOSE n \in names : \A m \in names \ {n} : str_lt(n, m)
         IN  TypeText(types, least) \o Ascending(types, names \ {least})

\* C27: for a primary type T that the map defines, encode_type(T) is the
\* text of T followed by the texts of the other custom types reachable from
\* T through member kinds, each once, in ascending order of name; for a T
\* the map does not define it is an error.
C27_EncodeType ==
    kcall.op = "encode_type" =>
       IF kcall.primary \in DOMAIN kcall.types
       THEN /\ kcall.text.ok
            /\ Unwrap(kcall.text)
                 = TypeText(kcall.types, kcall.primary)
                     \o Ascending(kcall.types,
                                  ReachableFrom(kcall.types, {kcall.primary})
                                     \ {kcall.primary})
       ELSE ~kcall.text.ok

\* A with members of kinds B and Ab[]: found in the order A, B, Ab and
\* written in the order A, Ab, B
C27_Witness ==
    /\ kcall.op = "encode_type"
    /\ kcall.text.ok
    /\ kcall.primary = << "A" >>
    /\ Len(kcall.types[kcall.primary]) = 2
    /\ kcall.types[kcall.primary][1].kind = << "B" >>
    /\ kcall.types[kcall.primary][2].kind = << "A", "b", "[", "]" >>
    /\ kcall.types[<< "B" >>] = << >>

NoDuplicates(results) ==
    \A i, j \in 1..Len(results) : results[i] = results[j] => i = j

\* C28: a call of find_type_dependencies with duplicate-free initial
\* results returns, also for types that refer to themselves or to each
\* other; the list returned has no duplicates, starts with the initial
\* results and continues with names that the type map defines.
C28_FindTerminates ==
    /\ (kcall.op = "find_type_dependencies") ~> kcall.done
    /\ [](kcall.done =>
            /\ NoDuplicates(kcall.results)
            /\ Len(kcall.results) >= Len(kcall.initial)
            /\ SubSeq(kcall.results, 1, Len(kcall.initial)) = kcall.initial
            /\ \A i \in (Len(kcall.initial) + 1)..Len(kcall.results) :
                  kcall.results[i] \in DOMAIN kcall.types
            /\ kcall.results
                 = find_type_dependencies(kcall.primary, kcall.types, kcall.initial))

\* A refers to itself and to Ab, Ab refers back to A: the call has returned
C28_Witness ==
    /\ kcall.done
    /\ kcall.primary = << "A" >>
    /\ \E i \in 1..Len(kcall.types[<< "A" >>]) : kcall.types[<< "A" >>][i].kind = << "A" >>
    /\ \E i \in 1..Len(kcall.types[<< "A", "b" >>]) : kcall.types[<< "A", "b" >>][i].kind = << "A" >>
    /\ kcall.results = << << "D" >>, << "A" >>, << "A", "b" >> >>

\* C29: a field of kind T[] whose value is a JSON array of values that
\* encode as T is encoded as keccak256 of the ABI encoding of the encodings
\* of its elements, whatever T is.
C29_ArrayRule ==
    (/\ kcall.op = "encode_field"
     /\ Len(kcall.kind) > 2
     /\ SubSeq(kcall.kind, Len(kcall.kind) - 1, Len(kcall.kind)) = << "[", "]" >>
     /\ kcall.value # None
     /\ kcall.value[1].t = "array") =>
       LET T == SubSeq(kcall.kind, 1, Len(kcall.kind) - 2)
           v == kcall.value[1].items
           each(i) == encode_field(<< "x" >>, T, Some(v[i]), kcall.types)
       IN  (\A i \in 1..Len(v) : each(i).ok) =>
              /\ kcall.token.ok
              /\ Unwrap(kcall.token).tag = "FixedBytes"
              /\ Unwrap(kcall.token).word.hash
              /\ Unwrap(kcall.token).word.bytes = << >>
              /\ Unwrap(kcall.token).word.text = << >>
              /\ Len(Unwrap(kcall.token).word.pre) = Len(v)
              /\ \A i \in 1..Len(v) :
                    Unwrap(kcall.token).word.pre[i] = Unwrap(each(i)).word

\* the kinds int, uint, intN and uintN with N a multiple of 8 from 8 to 256
WidthOf(w) ==
    IF w = << >> \/ Len(w) > 3 \/ \E i \in 1..Len(w) : ~IsDigit(w[i]) THEN 0
    ELSE IF Len(w) = 1 THEN DigitVal(w[1])
    ELSE IF Len(w) = 2 THEN 10 * DigitVal(w[1]) + DigitVal(w[2])
    ELSE 100 * DigitVal(w[1]) + 10 * DigitVal(w[2]) + DigitVal(w[3])
IsWidth(w) == w = << >> \/ (WidthOf(w) % 8 = 0 /\ WidthOf(w) >= 8 /\ WidthOf(w) <= 256)
IsSigned(kind) == starts_with(kind, KindInt) /\ IsWidth(SubSeq(kind, 4, Len(kind)))
IsUnsigned(kind) == starts_with(kind, KindUint) /\ IsWidth(SubSeq(kind, 5, Len(kind)))

\* the 32-byte big-endian two's complement of n, for -256 <= n < 65536
RECURSIVE Repeat(_, _)
Repeat(b, n) == IF n = 0 THEN << >> ELSE << b >> \o Repeat(b, n - 1)
TwosComplement(n) ==
    IF n >= 0 THEN Repeat(0, 30) \o << n \div 256, n % 256 >>
    ELSE Repeat(255, 31) \o << 256 + n >>

\* C30: a field of kind int, uint, intN or uintN (N a multiple of 8 from 8
\* to 256) whose value is an integer, negative only for the signed kinds,
\* is accepted and encoded as the 32-byte big-endian two's complement of
\* the integer.
C30_IntegerWord ==
    (/\ kcall.op = "encode_field"
     /\ IsSigned(kcall.kind) \/ IsUnsigned(kcall.kind)
     /\ kcall.value # None
     /\ kcall.value[1].t = "number"
     /\ kcall.value[1].n >= 0 \/ IsSigned(kcall.kind)) =>
       /\ kcall.token.ok
       /\ Unwrap(kcall.token).word = Raw(TwosComplement(kcall.value[1].n))
====
